---- MODULE Spec2Model ----
(***************************************************************************)
(* A model of the warelay message relay: the Twilio poll loop and the      *)
(* delivery wait of src/src/index.ts, and the WhatsApp Web session login   *)
(* and inbound listener of src/src/provider-web.ts.                        *)
(*                                                                         *)
(* One process runs one CLI command.  `cmd` names it; every command has    *)
(* its own group of variables, its own actions and its own specification.  *)
(* JavaScript runs handlers to completion: an action is the code that runs *)
(* between two awaits.                                                     *)
(***************************************************************************)
EXTENDS Integers, Sequences, FiniteSets, TLC

VARIABLES
    cmd,          \* the CLI command this process runs
    \* ---- monitor (src/src/index.ts:451-506)
    intervalSeconds, \* --interval, a positive integer (index.ts:560)
    sleepMs,      \* the delay the last call of sleep was given, 0 before any
    store,        \* the provider's messages: sid -> [direction, dateCreated]
    since0,       \* the initial value of `since` (now - lookback)
    since,        \* `since`: the watermark
    seen,         \* `seen`: the sids already emitted
    keepRunning,  \* `keepRunning`
    mpc,          \* where monitor is: "fetch", "sleep" or "done"
    emitCount,    \* history: how often each sid was printed
    skipped,      \* history: the sids a fetch returned again after they were seen
    lastFetch,    \* history: how the last fetch ended: "none", "ok" or "error"
    stoppedAt,    \* history: where monitor was when SIGINT first came ("first
                  \* fetch" for the fetch of the first iteration), or "none"
    \* ---- send and waitForFinalStatus (src/src/index.ts:210-274, 525-542)
    waitSeconds,  \* --wait
    pollSeconds,  \* --poll
    now,          \* Date.now(), in milliseconds from the start of the command
    deadline,     \* `deadline` of waitForFinalStatus
    spc,          \* where send is: "sending", "fetching", "sleeping", "returned",
                  \* "exited" (process.exit) or "threw" (the fetch rejected)
    observed,     \* history: the statuses waitForFinalStatus has read, in order
    fetches,      \* history: the number of status fetches started
    exitCode,     \* the codes process.exit was called with: {} or {1}
    report,       \* the last line reported to the caller
    sendFailure,  \* the rejection of messages.create and the lines printed for it
    \* ---- loginWeb, createWaSocket, waitForWaConnection
    \*      (src/src/provider-web.ts:33-112, 156-220)
    lpc,          \* where loginWeb is: "create_first", "wait_first", "rm",
                  \* "create_retry", "wait_retry" or "done"
    socks,        \* the sockets of loginWeb: "first" and "retry"
    hasOff,       \* whether sock.ev has an off method
    authDir,      \* WA_WEB_AUTH_DIR: "absent", "empty" or "creds"
    timers,       \* the sockets with a pending setTimeout(close, 500)
    reconnects,   \* history: the sockets created after a restart request
    told,         \* the lines loginWeb printed to the caller
    loginResult,  \* how loginWeb settled: "none", "ok" or the error thrown
    \* ---- monitorWebInbox (src/src/provider-web.ts:250-384)
    ipc,          \* "listening" once the messages.upsert handler is registered
    wseen,        \* `seen` of monitorWebInbox: the message ids already taken
    handlers,     \* the running invocations of the messages.upsert handler
    arrived,      \* history: the number of messages delivered in upserts
    dispatched,   \* history: how often onMessage was called, per message id
    redelivered,  \* history: the ids that arrived again after they were seen
    accepted,     \* history: the messages that passed every check of the loop
    settled,      \* history: the messages whose loop iteration has ended
    eligible,     \* history: the messages of notify upserts that are not from
                  \* oneself and not on a status or broadcast channel
    failedIds,    \* history: the ids of the messages whose onMessage rejected
    \* ---- the relay command (src/src/cli/program.ts:174-214) and pickProvider
    \*      (src/src/provider-web.ts:559-565)
    providerPref, \* --provider
    intervalOpt,  \* Number.parseInt(--interval): a number or NaN
    lookbackOpt,  \* Number.parseInt(--lookback): a number or NaN
    twilioEnv,    \* whether the environment holds the Twilio configuration
    rpc,          \* where relay is: "start", "web_connect", "web_running",
                  \* "twilio_running" or "exited"
    provider,     \* what pickProvider returned, "none" before
    started,      \* history: the transports started, in order
    relayExit,    \* the codes defaultRuntime.exit was called with: {} or {1}
    webConn,      \* the connection of the relay's listener: "none", "open" or
                  \* "closed"
    \* ---- loadWebMedia (src/src/provider-web.ts:631-666)
    mediaUrl,     \* the argument: the reference, as its prefixes and the rest
    mediaIo,      \* what the fetch or the file read answers: [outcome, size]
    mediaResult,  \* what loadWebMedia returned or threw, once called
    \* ---- startWebhook (src/src/index.ts:276-331)
    autoReply,    \* --reply: a text, or "" when it is not given
    reqs,         \* the POST requests: where the handler is, and its response
    \* ---- onMessage of monitorWebProvider (src/src/provider-web.ts:397-509)
    calls,        \* the invocations of onMessage: where each is, what the
                  \* resolver returned, the sends it made and what it logged
    \* ---- operations run on their own
    fetched,      \* one iteration of monitor: the page the fetch resolved with
    emitted,      \* one iteration of monitor: the sids printed, in order
    ws,           \* close of the listener: sock.ws, "open", "closed" or "absent"
    closeLog,     \* close of the listener: for each call, what it met and how
                  \* it settled
    wmsg,         \* the body of a message: msg.message
    body,         \* the body of a message: what the loop computed, once run
    webSend,      \* sendMessageWeb: where it is, whether --media is given, how
                  \* it settled and how often it called sock.ws.close()
    tg            \* promptTelegramAllowFrom: the allowFrom of the account, the
                  \* id entered, and what the runs so far wrote

monVars == <<store, since0, since, seen, keepRunning, mpc, emitCount, skipped,
            lastFetch, stoppedAt, intervalSeconds, sleepMs>>

sendVars == <<waitSeconds, pollSeconds, now, deadline, spc, observed, fetches,
              exitCode, report, sendFailure>>

loginVars == <<lpc, socks, hasOff, authDir, timers, reconnects, told, loginResult>>

inboxVars == <<ipc, wseen, handlers, arrived, dispatched, redelivered, accepted,
              settled, eligible, failedIds>>

relayVars == <<providerPref, intervalOpt, lookbackOpt, twilioEnv, rpc, provider,
               started, relayExit, webConn>>

mediaVars == <<mediaUrl, mediaIo, mediaResult>>

webhookVars == <<autoReply, reqs>>

unitVars == <<fetched, emitted, ws, closeLog, wmsg, body, webSend, tg>>

\* What an operation run on its own leaves alone.
notUnitVars == <<cmd, monVars, sendVars, loginVars, inboxVars, relayVars, mediaVars,
                 webhookVars, calls>>

vars == <<cmd, monVars, sendVars, loginVars, inboxVars, relayVars, mediaVars,
          webhookVars, calls, unitVars>>

\* What the actions of one command leave alone: the other commands' variables.
notMonUnitVars == <<cmd, sendVars, loginVars, inboxVars, relayVars, mediaVars,
                    webhookVars, calls>>
notMonVars == <<unitVars, notMonUnitVars>>
notSendVars == <<unitVars, cmd, monVars, loginVars, inboxVars, relayVars, mediaVars,
                 webhookVars, calls>>
notLoginVars == <<unitVars, cmd, monVars, sendVars, inboxVars, relayVars, mediaVars,
                  webhookVars, calls>>
notInboxVars == <<unitVars, cmd, monVars, sendVars, loginVars, relayVars, mediaVars,
                  webhookVars, calls>>
\* relay runs createWaSocket, which writes authDir.
notRelayVars == <<unitVars, cmd, monVars, sendVars, inboxVars, mediaVars,
                  webhookVars, calls, lpc, socks, hasOff, timers, reconnects, told,
                  loginResult>>
notMediaVars == <<unitVars, cmd, monVars, sendVars, loginVars, inboxVars, relayVars,
                  webhookVars, calls>>
notWebhookVars == <<unitVars, cmd, monVars, sendVars, loginVars, inboxVars, relayVars,
                    mediaVars, calls>>
notReplyVars == <<unitVars, cmd, monVars, sendVars, loginVars, inboxVars, relayVars,
                  mediaVars, webhookVars>>

----------------------------------------------------------------------------
(* Bounds of the model *)

\* Creation times are 0..MaxDate (milliseconds since the epoch, scaled).
MaxDate == 2
\* Entries one fetch returns at most (the code asks for limit: 50).
MaxPage == 2

\* --wait is 0..MaxWait seconds and --poll is 1..MaxPoll seconds.
MaxWait == 3
MaxPoll == 2

\* connection.update events one socket delivers at most.
MaxUpdates == 3

\* Messages all messages.upsert events deliver at most.
MaxMsgs == 2

\* Calls of the listener's close at most.
MaxCloses == 5

\* Entries the allowFrom of a Telegram account holds at most.
MaxAllow == 3

\* The message sids the provider may hold.
Sids == {"SM1", "SM2", "SM3"}
Directions == {"inbound", "outbound-api"}

\* dateCreated is a Date or null; NoDate stands for null/undefined.
NoDate == -1
Dates == 0..MaxDate

Max(S) == CHOOSE x \in S : \A y \in S : y <= x

\* All sequences over S of length at most n.
SeqsUpTo(S, n) == UNION {[1..k -> S] : k \in 0..n}

----------------------------------------------------------------------------
(* The body of a message: extractText and extractMediaPlaceholder,         *)
(* provider-web.ts:567-590, as the loop uses them at provider-web.ts:301-305 *)

\* undefined (or null), for a string and for a body.
Undef == "<undefined>"

\* sendMessageWeb is not running.
NoWebSend ==
    [pc |-> "idle", media |-> FALSE, result |-> "none", failedAt |-> "none",
     closeCalls |-> 0]

\* promptTelegramAllowFrom is not running.
NoTg ==
    [existing |-> <<>>, entered |-> "", accountId |-> "default", runs |-> 0,
     dmPolicy |-> "pairing", allowFrom |-> <<>>, first |-> <<>>]

\* String.prototype.trim on the strings of the model.
Trim(str) ==
    CASE str = " " -> ""
      [] str = "conv " -> "conv"
      [] str = "ext " -> "ext"
      [] str = "img " -> "img"
      [] str = "vid " -> "vid"
      [] str = "7 " -> "7"
      [] OTHER -> str

\* str?.trim() is truthy.
NonBlank(str) == str # Undef /\ Trim(str) # ""

\* No imageMessage (or videoMessage) in the message.
NoMedia == [present |-> FALSE, caption |-> Undef]

\* msg.message: each text is undefined, blank or a text; a media part is
\* absent or present with such a caption.  proto.IMessage lets one message
\* carry several parts.
Messages ==
    [conversation : {Undef, " ", "conv "},
     extended : {Undef, " ", "ext "},
     image : {NoMedia} \cup [present : {TRUE}, caption : {Undef, " ", "img "}],
     video : {NoMedia} \cup [present : {TRUE}, caption : {Undef, " ", "vid "}],
     audio : BOOLEAN,
     document : BOOLEAN,
     sticker : BOOLEAN]

NoMessage ==
    [conversation |-> Undef, extended |-> Undef, image |-> NoMedia,
     video |-> NoMedia, audio |-> FALSE, document |-> FALSE, sticker |-> FALSE]

\* message.imageMessage?.caption ?? message.videoMessage?.caption
\* (provider-web.ts:575-576): the video's caption only when the image's is
\* null or undefined.
Caption(m) == IF m.image.caption # Undef THEN m.image.caption ELSE m.video.caption

\* extractText (provider-web.ts:567-579)
extractText(m) ==
    IF NonBlank(m.conversation) THEN Trim(m.conversation)
    ELSE IF NonBlank(m.extended) THEN Trim(m.extended)
    ELSE IF NonBlank(Caption(m)) THEN Trim(Caption(m))
    ELSE Undef

\* extractMediaPlaceholder (provider-web.ts:581-590)
extractMediaPlaceholder(m) ==
    IF m.image.present THEN "<media:image>"
    ELSE IF m.video.present THEN "<media:video>"
    ELSE IF m.audio THEN "<media:audio>"
    ELSE IF m.document THEN "<media:document>"
    ELSE IF m.sticker THEN "<media:sticker>"
    ELSE Undef

\* The body of the loop (provider-web.ts:301-305); Undef when the loop
\* continues without a dispatch.
BodyOf(m) ==
    IF extractText(m) # Undef THEN extractText(m) ELSE extractMediaPlaceholder(m)

----------------------------------------------------------------------------
(* monitor: src/src/index.ts:451-506 *)

\* m.dateCreated?.getTime() ?? 0, the sort key of index.ts:488-489
DateKey(sid) ==
    IF store[sid].dateCreated = NoDate THEN 0 ELSE store[sid].dateCreated

\* updateSince (index.ts:464-469): `since` after one call with `date`
UpdateSinceNoCompare(s, date) == IF date = NoDate THEN s ELSE date
updateSince(s, date) ==
    IF date = NoDate THEN s
    ELSE IF date > s THEN date ELSE s

\* .filter(m => m.direction === 'inbound') (index.ts:486)
FilterInbound(page) ==
    SelectSeq(page, LAMBDA sid : store[sid].direction = "inbound")

\* Array.prototype.sort with the comparator da - db (index.ts:487-491):
\* a stable sort, ascending in DateKey.
RECURSIVE InsertByDate(_, _)
InsertByDate(sorted, sid) ==
    IF sorted = <<>> THEN <<sid>>
    ELSE IF DateKey(sid) < DateKey(sorted[Len(sorted)])
         THEN Append(InsertByDate(SubSeq(sorted, 1, Len(sorted) - 1), sid),
                     sorted[Len(sorted)])
         ELSE Append(sorted, sid)

SortByDateKeepsOrder(page) == page
RECURSIVE SortByDate(_)
SortByDate(page) ==
    IF page = <<>> THEN <<>>
    ELSE InsertByDate(SortByDate(SubSeq(page, 1, Len(page) - 1)), page[Len(page)])

\* if (seen.has(m.sid)) return;  (index.ts:493)
AlreadySeen(seenSet, sid) == sid \in seenSet

\* The body of forEach (index.ts:492-499) for one entry, on the loop's state
\* st = [seen, since, emitCount, skipped, out]; out is what this forEach has
\* printed so far.
EmitOneNoAdvance(st, sid) ==
    IF AlreadySeen(st.seen, sid)
    THEN [st EXCEPT !.skipped = @ \cup {sid}]
    ELSE [st EXCEPT !.seen = @ \cup {sid},
                    !.emitCount[sid] = @ + 1,
                    !.out = Append(@, sid)]
EmitOne(st, sid) ==
    IF AlreadySeen(st.seen, sid)
    THEN [st EXCEPT !.skipped = @ \cup {sid}]
    ELSE [st EXCEPT !.seen = @ \cup {sid},
                    !.emitCount[sid] = @ + 1,
                    !.out = Append(@, sid),
                    !.since = updateSince(@, store[sid].dateCreated)]

RECURSIVE ForEach(_, _)
ForEach(st, entries) ==
    IF entries = <<>> THEN st
    ELSE ForEach(EmitOne(st, Head(entries)), Tail(entries))

\* The pages client.messages.list may return (index.ts:479-483): up to MaxPage
\* entries of the store.  The provider is not assumed to honour dateSentAfter
\* (the filter is on the sent date, the watermark on the creation date), nor
\* to return an entry only once.
Pages == SeqsUpTo(Sids, MaxPage)

\* --interval: the default "5" (index.ts:546) and another positive integer.
DefaultInterval == 5

\* The argument of sleep (index.ts:504), after a fetch that ended as `ended`.
SleepMsBackoff(interval, ended) ==
    IF ended = "error" THEN 2 * interval * 1000 ELSE interval * 1000
SleepMs(interval, ended) == interval * 1000

MonitorInit ==
    /\ cmd = "monitor"
    /\ store \in [Sids -> [direction : Directions, dateCreated : Dates \cup {NoDate}]]
    /\ since0 \in Dates
    /\ since = since0
    /\ seen = {}
    /\ keepRunning = TRUE
    /\ mpc = "fetch"
    /\ emitCount = [s \in Sids |-> 0]
    /\ skipped = {}
    /\ lastFetch = "none"
    /\ stoppedAt = "none"
    /\ intervalSeconds \in {1, DefaultInterval}
    /\ sleepMs = 0

\* After await sleep(...) the while condition is read (index.ts:477, 504).
AfterSleepIgnoresFlag == "fetch"
AfterSleep == IF keepRunning THEN "fetch" ELSE "done"

\* client.messages.list resolved with `page` (index.ts:479-499), then sleep starts.
MonitorFetchOk ==
    /\ cmd = "monitor"
    /\ mpc = "fetch"
    /\ \E page \in Pages :
         LET st0 == [seen |-> seen, since |-> since, emitCount |-> emitCount,
                     skipped |-> skipped, out |-> <<>>]
             st  == ForEach(st0, SortByDate(FilterInbound(page)))
         IN /\ seen' = st.seen
            /\ since' = st.since
            /\ emitCount' = st.emitCount
            /\ skipped' = st.skipped
    /\ mpc' = "sleep"
    /\ lastFetch' = "ok"
    /\ sleepMs' = SleepMs(intervalSeconds, "ok")
    /\ UNCHANGED notMonVars
    /\ UNCHANGED <<store, since0, keepRunning, stoppedAt, intervalSeconds>>

\* What client.messages.list({to, dateSentAfter: since, limit}) resolves with
\* when the provider honours its arguments (index.ts:479-483): the entries
\* not older than `since`, all of them when they fit the limit, else as many
\* as the limit allows.  Which ones, and in what order, is the provider's
\* choice; an entry without a creation time passes the filter.
Listed(s) ==
    LET matching == {sid \in Sids : \/ store[sid].dateCreated = NoDate
                                    \/ store[sid].dateCreated >= s}
        n == IF Cardinality(matching) < MaxPage THEN Cardinality(matching)
             ELSE MaxPage
    IN {page \in [1..n -> matching] :
           \A i, j \in 1..n : i # j => page[i] # page[j]}

\* client.messages.list resolved with a page of such a provider
\* (index.ts:479-499), then sleep starts.
MonitorFetchListed ==
    /\ cmd = "monitor"
    /\ mpc = "fetch"
    /\ \E page \in Listed(since) :
         LET st0 == [seen |-> seen, since |-> since, emitCount |-> emitCount,
                     skipped |-> skipped, out |-> <<>>]
             st  == ForEach(st0, SortByDate(FilterInbound(page)))
         IN /\ seen' = st.seen
            /\ since' = st.since
            /\ emitCount' = st.emitCount
            /\ skipped' = st.skipped
    /\ mpc' = "sleep"
    /\ lastFetch' = "ok"
    /\ sleepMs' = SleepMs(intervalSeconds, "ok")
    /\ UNCHANGED notMonVars
    /\ UNCHANGED <<store, since0, keepRunning, stoppedAt, intervalSeconds>>

\* The catch of the loop body (index.ts:500-502): the error is logged and
\* the loop goes on to its sleep.
OnFetchErrorFatal == "done"
OnFetchError == "sleep"

\* client.messages.list rejected (index.ts:479-504).
MonitorFetchError ==
    /\ cmd = "monitor"
    /\ mpc = "fetch"
    /\ mpc' = OnFetchError
    /\ lastFetch' = "error"
    /\ sleepMs' = SleepMs(intervalSeconds, "error")
    /\ UNCHANGED notMonVars
    /\ UNCHANGED <<store, since0, since, seen, keepRunning, emitCount, skipped,
                   stoppedAt, intervalSeconds>>

\* sleep resolved (index.ts:504), the loop condition is read (index.ts:477).
MonitorSleepDone ==
    /\ cmd = "monitor"
    /\ mpc = "sleep"
    /\ mpc' = AfterSleep
    /\ UNCHANGED notMonVars
    /\ UNCHANGED <<store, since0, since, seen, keepRunning, emitCount, skipped,
                   lastFetch, stoppedAt, intervalSeconds, sleepMs>>

\* The SIGINT handler (index.ts:472-475).
MonitorSigint ==
    /\ cmd = "monitor"
    /\ mpc # "done"
    /\ keepRunning' = FALSE
    /\ stoppedAt' = IF ~keepRunning THEN stoppedAt
                    ELSE IF mpc = "fetch" /\ lastFetch = "none" THEN "first fetch"
                    ELSE mpc
    /\ UNCHANGED notMonVars
    /\ UNCHANGED <<store, since0, since, seen, mpc, emitCount, skipped, lastFetch,
                   intervalSeconds, sleepMs>>

MonitorIdle ==
    /\ store = [s \in Sids |-> [direction |-> "inbound", dateCreated |-> NoDate]]
    /\ since0 = 0
    /\ since = 0
    /\ seen = {}
    /\ keepRunning = TRUE
    /\ mpc = "idle"
    /\ emitCount = [s \in Sids |-> 0]
    /\ skipped = {}
    /\ lastFetch = "none"
    /\ stoppedAt = "none"
    /\ intervalSeconds = DefaultInterval
    /\ sleepMs = 0

\* One iteration of the loop on its own (index.ts:478-499): the provider's
\* entries, the page the fetch resolves with and the SeenSet are the inputs.
\* The SeenSet holds entries printed by earlier iterations, which were
\* inbound, and the watermark is not below their creation times.
IterationInit ==
    /\ cmd = "monitor-iteration"
    /\ store \in [Sids -> [direction : Directions, dateCreated : Dates \cup {NoDate}]]
    /\ fetched \in Pages
    /\ seen \in {{}, {"SM1"}}
    /\ \A sid \in seen : store[sid].direction = "inbound"
    /\ since0 = 0
    /\ since = Max({since0} \cup {DateKey(sid) : sid \in seen})
    /\ keepRunning = TRUE
    /\ mpc = "fetch"
    /\ emitCount = [s \in Sids |-> IF s \in seen THEN 1 ELSE 0]
    /\ skipped = {}
    /\ lastFetch = "none"
    /\ stoppedAt = "none"
    /\ intervalSeconds = DefaultInterval
    /\ sleepMs = 0
    /\ emitted = <<>>
    /\ ws = "absent"
    /\ closeLog = <<>>
    /\ wmsg = NoMessage
    /\ body = "unset"
    /\ webSend = NoWebSend
    /\ tg = NoTg

\* client.messages.list resolved with `fetched`: filter, sort, forEach
\* (index.ts:485-499), then the sleep starts.
IterationRun ==
    /\ cmd = "monitor-iteration"
    /\ mpc = "fetch"
    /\ LET st == ForEach([seen |-> seen, since |-> since, emitCount |-> emitCount,
                          skipped |-> skipped, out |-> <<>>],
                         SortByDate(FilterInbound(fetched)))
       IN /\ seen' = st.seen
          /\ since' = st.since
          /\ emitCount' = st.emitCount
          /\ skipped' = st.skipped
          /\ emitted' = st.out
    /\ mpc' = "sleep"
    /\ lastFetch' = "ok"
    /\ sleepMs' = SleepMs(intervalSeconds, "ok")
    /\ UNCHANGED notMonUnitVars
    /\ UNCHANGED <<store, since0, keepRunning, stoppedAt, intervalSeconds, fetched,
                   ws, closeLog, wmsg, body, webSend, tg>>

UnitIdle ==
    /\ fetched = <<>>
    /\ emitted = <<>>
    /\ ws = "absent"
    /\ closeLog = <<>>
    /\ wmsg = NoMessage
    /\ body = "unset"
    /\ webSend = NoWebSend
    /\ tg = NoTg

MonitorNext ==
    \/ MonitorFetchOk
    \/ MonitorFetchError
    \/ MonitorSleepDone
    \/ MonitorSigint

----------------------------------------------------------------------------
(* send: src/src/index.ts:525-542, sendMessage 210-243,                    *)
(* waitForFinalStatus 245-274                                              *)

\* successTerminalStatuses, failureTerminalStatuses (index.ts:245-246)
successTerminalStatuses == {"delivered", "read"}
failureTerminalStatuses == {"failed", "undelivered", "canceled"}
TerminalStatuses == successTerminalStatuses \cup failureTerminalStatuses

\* What client.messages(sid).fetch() may carry in m.status; NoStatus is a
\* missing status (null or undefined).
NoStatus == "null"
FetchedStatuses == {"queued", "sent"} \cup TerminalStatuses \cup {NoStatus}

\* const status = m.status ?? 'unknown'  (index.ts:258)
StatusOf(raw) == IF raw = NoStatus THEN "unknown" ELSE raw

\* Milliseconds a fetch may take, and a timer may fire late.
Latencies == {0, 1, 1000}
Jitters == {0, 1}

\* The branch waitForFinalStatus takes on one status (index.ts:259-271).
ClassifyFailureAsPending(status) ==
    IF status \in successTerminalStatuses THEN "success" ELSE "again"
ClassifySentAsSuccess(status) ==
    IF status \in successTerminalStatuses \cup {"sent"} THEN "success"
    ELSE IF status \in failureTerminalStatuses THEN "failure"
    ELSE "again"
Classify(status) ==
    IF status \in successTerminalStatuses THEN "success"
    ELSE IF status \in failureTerminalStatuses THEN "failure"
    ELSE "again"

\* while (Date.now() < deadline)  (index.ts:256)
BeforeDeadline(t, d) == t < d

\* The line after the loop (index.ts:273): [spc, exitCode, report] once the
\* deadline has passed.
OnDeadlineExit == [spc |-> "exited", exitCode |-> {1}, report |-> "failed"]
OnDeadline == [spc |-> "returned", exitCode |-> {}, report |-> "in-flight"]

\* What client.messages.create may reject with: whether the error carries a
\* code, a status, a message, moreInfo and response.body (index.ts:227-238).
SendErrors ==
    [code : BOOLEAN, status : BOOLEAN, message : BOOLEAN, moreInfo : BOOLEAN,
     body : BOOLEAN]

\* The parts console.error prints for err (index.ts:232-239): the first line
\* carries the code and the status when they are there, and the message or
\* else the error itself.
ErrorLines(err) ==
    {IF err.message THEN "message" ELSE "error"}
        \cup {f \in {"code", "status", "moreInfo", "body"} : err[f]}

NoFailure ==
    [err |-> [code |-> FALSE, status |-> FALSE, message |-> FALSE,
              moreInfo |-> FALSE, body |-> FALSE],
     printed |-> {}]

SendInit ==
    /\ cmd = "send"
    /\ waitSeconds \in 0..MaxWait
    /\ pollSeconds \in 1..MaxPoll
    /\ now = 0
    /\ deadline = 0
    /\ spc = "sending"
    /\ observed = <<>>
    /\ fetches = 0
    /\ exitCode = {}
    /\ report = "none"
    /\ sendFailure = NoFailure

SendIdle ==
    /\ waitSeconds = 0
    /\ pollSeconds = 1
    /\ now = 0
    /\ deadline = 0
    /\ spc = "idle"
    /\ observed = <<>>
    /\ fetches = 0
    /\ exitCode = {}
    /\ report = "none"
    /\ sendFailure = NoFailure

\* client.messages.create resolved (index.ts:218-225); back in the action
\* (index.ts:538-541): return when --wait is 0, else waitForFinalStatus
\* starts: the deadline is set and the loop condition read (index.ts:255-257).
SendAccepted ==
    /\ cmd = "send"
    /\ spc = "sending"
    /\ \E dt \in Latencies :
         /\ now' = now + dt
         /\ IF waitSeconds = 0
            THEN /\ spc' = "returned"
                 /\ report' = "accepted"
                 /\ UNCHANGED <<deadline, fetches, exitCode>>
            ELSE /\ deadline' = now' + waitSeconds * 1000
                 /\ IF BeforeDeadline(now', deadline')
                    THEN /\ spc' = "fetching"
                         /\ fetches' = fetches + 1
                         /\ report' = "accepted"
                         /\ UNCHANGED exitCode
                    ELSE /\ spc' = OnDeadline.spc
                         /\ exitCode' = OnDeadline.exitCode
                         /\ report' = OnDeadline.report
                         /\ UNCHANGED fetches
    /\ UNCHANGED notSendVars
    /\ UNCHANGED <<sendFailure, waitSeconds, pollSeconds, observed>>

\* client.messages.create rejected with err (index.ts:226-242): the lines
\* are printed, then process.exit(1).
OnSendErrorReturns(err) ==
    [spc |-> "returned", exitCode |-> {}, printed |-> ErrorLines(err)]
OnSendError(err) ==
    [spc |-> "exited", exitCode |-> {1}, printed |-> ErrorLines(err)]

SendFailed ==
    /\ cmd = "send"
    /\ spc = "sending"
    /\ \E err \in SendErrors :
         /\ spc' = OnSendError(err).spc
         /\ exitCode' = OnSendError(err).exitCode
         /\ sendFailure' = [err |-> err, printed |-> OnSendError(err).printed]
    /\ report' = "send-failed"
    /\ UNCHANGED notSendVars
    /\ UNCHANGED <<waitSeconds, pollSeconds, now, deadline, observed, fetches>>

\* client.messages(sid).fetch() resolved with status `raw` (index.ts:257-271).
WaitFetched ==
    /\ cmd = "send"
    /\ spc = "fetching"
    /\ \E raw \in FetchedStatuses, dt \in Latencies :
         LET status == StatusOf(raw)
             branch == Classify(status)
         IN /\ now' = now + dt
            /\ observed' = Append(observed, status)
            /\ spc' = CASE branch = "success" -> "returned"
                         [] branch = "failure" -> "exited"
                         [] OTHER -> "sleeping"
            /\ exitCode' = IF branch = "failure" THEN {1} ELSE exitCode
            /\ report' = CASE branch = "success" -> "delivered"
                            [] branch = "failure" -> "failed"
                            [] OTHER -> report
    /\ UNCHANGED notSendVars
    /\ UNCHANGED <<sendFailure, waitSeconds, pollSeconds, deadline, fetches>>

\* client.messages(sid).fetch() rejected: waitForFinalStatus has no catch, the
\* rejection leaves it (index.ts:257).
WaitFetchThrew ==
    /\ cmd = "send"
    /\ spc = "fetching"
    /\ spc' = "threw"
    /\ report' = "fetch-error"
    /\ UNCHANGED notSendVars
    /\ UNCHANGED <<sendFailure, waitSeconds, pollSeconds, now, deadline, observed, fetches,
                   exitCode>>

\* sleep(pollSeconds * 1000) resolved (index.ts:271); the loop condition is
\* read (index.ts:256): the next fetch starts, or the loop ends (index.ts:273).
WaitSlept ==
    /\ cmd = "send"
    /\ spc = "sleeping"
    /\ \E j \in Jitters :
         /\ now' = now + pollSeconds * 1000 + j
         /\ IF BeforeDeadline(now', deadline)
            THEN /\ spc' = "fetching"
                 /\ fetches' = fetches + 1
                 /\ UNCHANGED <<exitCode, report>>
            ELSE /\ spc' = OnDeadline.spc
                 /\ exitCode' = OnDeadline.exitCode
                 /\ report' = OnDeadline.report
                 /\ UNCHANGED fetches
    /\ UNCHANGED notSendVars
    /\ UNCHANGED <<sendFailure, waitSeconds, pollSeconds, deadline, observed>>

SendNext ==
    \/ SendAccepted
    \/ SendFailed
    \/ WaitFetched
    \/ WaitFetchThrew
    \/ WaitSlept

----------------------------------------------------------------------------
(* login: createWaSocket (provider-web.ts:33-85), waitForWaConnection      *)
(* (87-112), loginWeb (156-220)                                            *)

Socks == {"first", "retry"}

\* DisconnectReason.loggedOut (provider-web.ts:72, 195) and the restart
\* request after pairing (provider-web.ts:171).
LoggedOut == 401
RestartRequired == 515
\* The status codes a closed connection may carry in lastDisconnect.
CloseCodes == {LoggedOut, RestartRequired, 408}
\* update.lastDisconnect is undefined.
NoDisconnect == 0

\* The connection.update events of a socket: a QR code to scan, the
\* connection opening, or the connection closing with lastDisconnect `ld`.
ConnUpdates ==
    {[connection |-> "none", ld |-> NoDisconnect, qr |-> TRUE],
     [connection |-> "open", ld |-> NoDisconnect, qr |-> FALSE]}
    \cup {[connection |-> "close", ld |-> c, qr |-> FALSE] :
             c \in CloseCodes \cup {NoDisconnect}}
NoUpdate == [connection |-> "none", ld |-> NoDisconnect, qr |-> FALSE]

\* A socket not created yet.
NoSock ==
    [made |-> FALSE, printQr |-> FALSE, wsClosed |-> FALSE, listening |-> FALSE,
     promise |-> "none", reason |-> NoDisconnect, settles |-> 0,
     updates |-> 0, firstEvent |-> NoUpdate, laterEvents |-> 0, qrShown |-> 0]

\* makeWASocket and the handlers of createWaSocket(printQr)
\* (provider-web.ts:48-84), then waitForWaConnection's new Promise and
\* sock.ev.on (provider-web.ts:90, 110), which the caller runs in the same turn.
NewSock(printQr) ==
    [NoSock EXCEPT !.made = TRUE, !.printQr = printQr, !.listening = TRUE,
                   !.promise = "pending"]

\* await ensureDir(WA_WEB_AUTH_DIR)  (provider-web.ts:45)
EnsureDir(dir) == IF dir = "absent" THEN "empty" ELSE dir

\* saveCreds on creds.update (provider-web.ts:61): the files are written into
\* the directory; nothing is written when the directory is gone.
SaveCreds(dir) == IF dir = "absent" THEN "absent" ELSE "creds"

\* resolve() / reject(reason) of waitForWaConnection's promise
\* (provider-web.ts:102, 106): a settled promise ignores later calls.
SettleOverwrite(sock, outcome, reason) ==
    [sock EXCEPT !.promise = outcome, !.reason = reason, !.settles = @ + 1]
Settle(sock, outcome, reason) ==
    IF sock.promise = "pending"
    THEN [sock EXCEPT !.promise = outcome, !.reason = reason, !.settles = @ + 1]
    ELSE sock

\* evWithOff.off?.("connection.update", handler)  (provider-web.ts:101, 105)
Off(sock) == [sock EXCEPT !.listening = ~hasOff]

\* handler of waitForWaConnection (provider-web.ts:96-108) on one update
WaitHandler(sock, u) ==
    IF u.connection = "open" THEN Settle(Off(sock), "resolved", NoDisconnect)
    ELSE IF u.connection = "close" THEN Settle(Off(sock), "rejected", u.ld)
    ELSE sock

\* The connection.update handler of createWaSocket (provider-web.ts:62-82):
\* the QR code is printed when printQr is set.
QrHandler(sock, u) ==
    IF u.qr /\ sock.printQr THEN [sock EXCEPT !.qrShown = @ + 1] ELSE sock

\* History of one update: the first open/close update, and those after it.
Recorded(sock, u) ==
    [sock EXCEPT !.updates = @ + 1,
                 !.firstEvent = IF @ = NoUpdate /\ u.connection # "none" THEN u ELSE @,
                 !.laterEvents = IF sock.firstEvent # NoUpdate /\ u.connection # "none"
                                 THEN @ + 1 ELSE @]

\* The code of a rejection (provider-web.ts:167-170):
\* err.error.output.statusCode ?? err.output.statusCode.  A rejection is the
\* lastDisconnect {error, date}, or new Error("Connection closed") when
\* lastDisconnect is undefined; the Error has no code.
CodeOf(reason) == reason

\* formatError (provider-web.ts:675-683) of a rejection: the message of the
\* Error, else String(err) of lastDisconnect, which has neither output,
\* status nor code.
formatError(reason) ==
    IF reason = NoDisconnect THEN "Connection closed" ELSE "[object Object]"

\* Which await of loginWeb can resume: promise continuations run before the
\* next event or timer.
LoginRunnable ==
    \/ lpc = "wait_first" /\ socks["first"].promise # "pending"
    \/ lpc = "wait_retry" /\ socks["retry"].promise # "pending"

LoginInit ==
    /\ cmd = "login"
    /\ lpc = "create_first"
    /\ socks = [s \in Socks |-> NoSock]
    /\ hasOff \in BOOLEAN
    /\ authDir \in {"absent", "empty", "creds"}
    /\ timers = {}
    /\ reconnects = <<>>
    /\ told = {}
    /\ loginResult = "none"

\* loginWeb is not running; authDir is whatever earlier runs left.
LoginAtRest ==
    /\ lpc = "idle"
    /\ socks = [s \in Socks |-> NoSock]
    /\ hasOff = TRUE
    /\ timers = {}
    /\ reconnects = <<>>
    /\ told = {}
    /\ loginResult = "none"

LoginIdle == LoginAtRest /\ authDir = "absent"

\* createWaSocket(true, verbose) resolved (provider-web.ts:161-164).
LoginSocketCreated ==
    /\ cmd = "login"
    /\ lpc = "create_first"
    /\ socks' = [socks EXCEPT !["first"] = NewSock(TRUE)]
    /\ authDir' = EnsureDir(authDir)
    /\ lpc' = "wait_first"
    /\ UNCHANGED notLoginVars
    /\ UNCHANGED <<hasOff, timers, reconnects, told, loginResult>>

\* createWaSocket(true, verbose) rejected, before or after ensureDir: it is
\* outside the try, loginWeb rejects (provider-web.ts:161).
LoginSocketFailed ==
    /\ cmd = "login"
    /\ lpc = "create_first"
    /\ authDir' \in {authDir, EnsureDir(authDir)}
    /\ lpc' = "done"
    /\ loginResult' = [kind |-> "raw", text |-> "createWaSocket", from |-> "first"]
    /\ UNCHANGED notLoginVars
    /\ UNCHANGED <<socks, hasOff, timers, reconnects, told>>

\* One connection.update event of socket s: the handler of createWaSocket,
\* then the handler of waitForWaConnection when it is registered.
ConnectionUpdate ==
    /\ cmd = "login"
    /\ ~LoginRunnable
    /\ \E s \in Socks, u \in ConnUpdates :
         /\ socks[s].made
         /\ socks[s].updates < MaxUpdates
         /\ LET a == Recorded(QrHandler(socks[s], u), u)
                b == IF a.listening THEN WaitHandler(a, u) ELSE a
            IN socks' = [socks EXCEPT ![s] = b]
    /\ UNCHANGED notLoginVars
    /\ UNCHANGED <<lpc, hasOff, authDir, timers, reconnects, told, loginResult>>

\* One creds.update event: saveCreds (provider-web.ts:61).
CredsUpdate ==
    /\ cmd = "login"
    /\ ~LoginRunnable
    /\ \E s \in Socks : socks[s].made
    /\ authDir' = SaveCreds(authDir)
    /\ UNCHANGED notLoginVars
    /\ UNCHANGED <<lpc, socks, hasOff, timers, reconnects, told, loginResult>>

\* The finally of loginWeb (provider-web.ts:211-219) and the finally around
\* the retry (provider-web.ts:191-193): setTimeout(close, 500).
ScheduleClose(ts, s) == ts \cup {s}

\* await waitForConnection(sock) settled (provider-web.ts:164-210): "Linked",
\* or the catch up to its next await or its throw.
ReconnectOnAnyClose(code) == TRUE
ReconnectOn(code) == code = RestartRequired

LoginFirstSettled ==
    /\ cmd = "login"
    /\ lpc = "wait_first"
    /\ socks["first"].promise # "pending"
    /\ LET err == socks["first"].reason
           code == CodeOf(err)
       IN IF socks["first"].promise = "resolved"
          THEN /\ told' = told \cup {"linked"}
               /\ loginResult' = "ok"
               /\ lpc' = "done"
               /\ timers' = ScheduleClose(timers, "first")
               /\ UNCHANGED <<socks, reconnects>>
          ELSE IF ReconnectOn(code)
          THEN /\ told' = told \cup {"restarting"}
               /\ socks' = [socks EXCEPT !["first"].wsClosed = TRUE]
               /\ lpc' = "create_retry"
               /\ UNCHANGED <<timers, reconnects, loginResult>>
          ELSE IF code = LoggedOut
          THEN /\ lpc' = "rm"
               /\ UNCHANGED <<socks, timers, reconnects, told, loginResult>>
          ELSE /\ told' = told \cup {"ended-before-open"}
               /\ loginResult' = [kind |-> "Error", text |-> formatError(err),
                                  from |-> "first"]
               /\ lpc' = "done"
               /\ timers' = ScheduleClose(timers, "first")
               /\ UNCHANGED <<socks, reconnects>>
    /\ UNCHANGED notLoginVars
    /\ UNCHANGED <<hasOff, authDir>>

\* fs.rm(WA_WEB_AUTH_DIR, {recursive, force}) resolved (provider-web.ts:196-203).
RemoveAuthDirKeep(dir) == dir
RemoveAuthDir(dir) == "absent"

LoginCredsCleared ==
    /\ cmd = "login"
    /\ lpc = "rm"
    /\ authDir' = RemoveAuthDir(authDir)
    /\ told' = told \cup {"logged-out-cleared"}
    /\ loginResult' = [kind |-> "Error",
                       text |-> "Session logged out; cache cleared. Re-run login.",
                       from |-> "first"]
    /\ lpc' = "done"
    /\ timers' = ScheduleClose(timers, "first")
    /\ UNCHANGED notLoginVars
    /\ UNCHANGED <<socks, hasOff, reconnects>>

\* The printQr argument of the retry's createWaSocket (provider-web.ts:182).
RetryPrintQr == FALSE

\* createWaSocket(false, verbose) for the retry resolved (provider-web.ts:182-184).
LoginRetryCreated ==
    /\ cmd = "login"
    /\ lpc = "create_retry"
    /\ socks' = [socks EXCEPT !["retry"] = NewSock(RetryPrintQr)]
    /\ authDir' = EnsureDir(authDir)
    /\ reconnects' = Append(reconnects, "retry")
    /\ lpc' = "wait_retry"
    /\ UNCHANGED notLoginVars
    /\ UNCHANGED <<hasOff, timers, told, loginResult>>

\* createWaSocket(false, verbose) for the retry rejected: the error leaves the
\* catch through the outer finally (provider-web.ts:182, 211-219).
LoginRetryCreateFailed ==
    /\ cmd = "login"
    /\ lpc = "create_retry"
    /\ authDir' \in {authDir, EnsureDir(authDir)}
    /\ reconnects' = Append(reconnects, "failed")
    /\ loginResult' = [kind |-> "raw", text |-> "createWaSocket", from |-> "retry"]
    /\ lpc' = "done"
    /\ timers' = ScheduleClose(timers, "first")
    /\ UNCHANGED notLoginVars
    /\ UNCHANGED <<socks, hasOff, told>>

\* The error loginWeb throws when the retry's connection closes before
\* opening: the try around the retry has a finally and no catch
\* (provider-web.ts:183-193), the retry's rejection leaves loginWeb as it is.
RetryFailure(firstReason, retryReason) ==
    IF retryReason = NoDisconnect
    THEN [kind |-> "Error", text |-> "Connection closed", from |-> "retry"]
    ELSE [kind |-> "raw", text |-> "lastDisconnect", from |-> "retry"]

\* await waitForConnection(retry) settled (provider-web.ts:184-193), then the
\* outer finally (provider-web.ts:211-219).
LoginRetrySettled ==
    /\ cmd = "login"
    /\ lpc = "wait_retry"
    /\ socks["retry"].promise # "pending"
    /\ IF socks["retry"].promise = "resolved"
       THEN /\ told' = told \cup {"linked-after-restart"}
            /\ loginResult' = "ok"
       ELSE /\ told' = told
            /\ loginResult' = RetryFailure(socks["first"].reason, socks["retry"].reason)
    /\ lpc' = "done"
    /\ timers' = ScheduleClose(ScheduleClose(timers, "retry"), "first")
    /\ UNCHANGED notLoginVars
    /\ UNCHANGED <<socks, hasOff, authDir, reconnects>>

\* A close timer fires: sock.ws?.close()  (provider-web.ts:192, 212-218).
CloseTimerFired ==
    /\ cmd = "login"
    /\ ~LoginRunnable
    /\ \E s \in timers :
         /\ timers' = timers \ {s}
         /\ socks' = [socks EXCEPT ![s].wsClosed = TRUE]
    /\ UNCHANGED notLoginVars
    /\ UNCHANGED <<lpc, hasOff, authDir, reconnects, told, loginResult>>

LoginNext ==
    \/ LoginSocketCreated
    \/ LoginSocketFailed
    \/ ConnectionUpdate
    \/ CredsUpdate
    \/ LoginFirstSettled
    \/ LoginCredsCleared
    \/ LoginRetryCreated
    \/ LoginRetryCreateFailed
    \/ LoginRetrySettled
    \/ CloseTimerFired

----------------------------------------------------------------------------
(* relay over the web session: the messages.upsert handler of              *)
(* monitorWebInbox (provider-web.ts:270-373)                               *)

\* msg.key.id: an id, or NoId when it is missing or empty (`id &&` is false).
Ids == {"wamid.A", "wamid.B"}
NoId == ""
\* msg.key.remoteJid: a user chat, a status or broadcast channel, missing, or
\* a jid jidToE164 gives no number for.
Jids == {"user", "status", "broadcast", "missing", "unresolvable"}
\* msg.message: a text, a media attachment without text, or nothing usable.
Contents == {"text", "media", "none"}

\* The messages an upsert may deliver: any id, and at most one of fromMe,
\* remoteJid and message away from a plain inbound text of a user chat.
WebMessages ==
    {m \in [id : Ids \cup {NoId}, fromMe : BOOLEAN, jid : Jids, content : Contents] :
        Cardinality({k \in {1, 2, 3} :
            \/ k = 1 /\ m.fromMe
            \/ k = 2 /\ m.jid # "user"
            \/ k = 3 /\ m.content # "text"}) <= 1}

\* if (id && seen.has(id)) continue;  (provider-web.ts:275)
IsDuplicateNever(seenSet, id) == FALSE
IsDuplicate(seenSet, id) == id # NoId /\ id \in seenSet

\* The checks between the dedup and the first await (provider-web.ts:277-282).
FilteredKeepsBroadcast(m) == m.fromMe \/ m.jid \in {"missing", "status"}
Filtered(m) ==
    \/ m.fromMe
    \/ m.jid = "missing"
    \/ m.jid \in {"status", "broadcast"}

\* jidToE164(remoteJid) and the body (provider-web.ts:299-305): the message is
\* dropped when there is no sender number, or neither text nor media.
Dropped(m) == m.jid = "unresolvable" \/ m.content = "none"

\* The handler from the top of the for loop (provider-web.ts:272-305) to its
\* next await, on h: the fields of an invocation with `seen` and the history
\* `redelivered`.  queue holds the messages not finished yet, the one in
\* progress first; readFailed, dlFailed and mediaPath are about that one;
\* failed says the catch of provider-web.ts:367-371 has logged a failure of
\* an earlier message of the batch.
RECURSIVE Advance(_)
Advance(h) ==
    IF h.queue = <<>> THEN [h EXCEPT !.pc = "done"]
    ELSE LET m == Head(h.queue)
             taken == [h EXCEPT !.seen = IF m.id # NoId THEN @ \cup {m.id} ELSE @,
                                !.readFailed = FALSE, !.dlFailed = FALSE,
                                !.mediaPath = FALSE]
         IN IF IsDuplicate(h.seen, m.id)
            THEN Advance([h EXCEPT !.queue = Tail(@),
                                   !.redelivered = @ \cup {m.id}])
            ELSE IF Filtered(m) THEN Advance([taken EXCEPT !.queue = Tail(@)])
            ELSE IF m.id # NoId THEN [taken EXCEPT !.pc = "read"]
            ELSE IF Dropped(m) THEN Advance([taken EXCEPT !.queue = Tail(@)])
            ELSE [taken EXCEPT !.pc = "download"]

\* After await sock.readMessages, fulfilled or caught (provider-web.ts:285-305).
AfterRead(h) ==
    IF Dropped(Head(h.queue)) THEN Advance([h EXCEPT !.queue = Tail(@)])
    ELSE [h EXCEPT !.pc = "download"]

\* sock.readMessages rejected: the catch logs it (provider-web.ts:295-297)
\* and the loop body goes on.
ReadFailedSkips(h) == Advance([h EXCEPT !.queue = Tail(@)])
ReadFailed(h) == AfterRead([h EXCEPT !.readFailed = TRUE])

\* options.onMessage rejected: the catch logs it (provider-web.ts:367-371)
\* and the loop goes on with the next message.
OnMessageRejectedAborts(h) ==
    [h EXCEPT !.queue = Tail(@), !.failed = TRUE, !.pc = "done"]
OnMessageRejectedForgets(h) ==
    Advance([h EXCEPT !.queue = Tail(@), !.failed = TRUE,
                      !.seen = @ \ {Head(h.queue).id}])
OnMessageRejected(h) == Advance([h EXCEPT !.queue = Tail(@), !.failed = TRUE])

\* The history of one step of the handler that held queue q (the whole batch
\* when the invocation is `fresh`) and is left as r: how many loop
\* iterations ended, and whether a message passed every check.
Tally(q, r, fresh) ==
    [settled |-> Len(q) - Len(r.queue),
     accepted |-> IF /\ fresh \/ Len(r.queue) < Len(q)
                     /\ r.pc \in {"read", "download"}
                     /\ ~Dropped(Head(r.queue))
                  THEN 1 ELSE 0]

InboxInit ==
    /\ cmd = "relay-web"
    /\ ipc = "listening"
    /\ wseen = {}
    /\ handlers = <<>>
    /\ arrived = 0
    /\ dispatched = [i \in Ids \cup {NoId} |-> 0]
    /\ redelivered = {}
    /\ accepted = 0
    /\ settled = 0
    /\ eligible = 0
    /\ failedIds = {}

InboxIdle ==
    /\ ipc = "idle"
    /\ wseen = {}
    /\ handlers = <<>>
    /\ arrived = 0
    /\ dispatched = [i \in Ids \cup {NoId} |-> 0]
    /\ redelivered = {}
    /\ accepted = 0
    /\ settled = 0
    /\ eligible = 0
    /\ failedIds = {}

\* handlers with invocation k replaced by r, or removed when r has returned.
Resumed(k, r) ==
    IF r.pc = "done"
    THEN SubSeq(handlers, 1, k - 1) \o SubSeq(handlers, k + 1, Len(handlers))
    ELSE [handlers EXCEPT ![k] =
             [queue |-> r.queue, pc |-> r.pc, readFailed |-> r.readFailed,
              dlFailed |-> r.dlFailed, mediaPath |-> r.mediaPath,
              failed |-> r.failed]]

\* The handler state Advance works on, for invocation record hr.
Running(hr) ==
    [queue |-> hr.queue, pc |-> hr.pc, readFailed |-> hr.readFailed,
     dlFailed |-> hr.dlFailed, mediaPath |-> hr.mediaPath, failed |-> hr.failed,
     seen |-> wseen, redelivered |-> redelivered]

\* A messages.upsert event (provider-web.ts:270-282): a new invocation of the
\* handler runs to its first await.
Upsert ==
    /\ cmd = "relay-web"
    /\ ipc = "listening"
    /\ \E type \in {"notify", "append"},
          batch \in SeqsUpTo(WebMessages, MaxMsgs - arrived) :
         /\ batch # <<>>
         /\ arrived' = arrived + Len(batch)
         /\ eligible' = eligible +
                IF type # "notify" THEN 0
                ELSE Cardinality({i \in DOMAIN batch :
                                    /\ ~batch[i].fromMe
                                    /\ batch[i].jid \notin {"status", "broadcast"}})
         /\ IF type # "notify"
            THEN /\ settled' = settled + Len(batch)
                 /\ UNCHANGED <<wseen, handlers, redelivered, accepted>>
            ELSE LET r == Advance([queue |-> batch, pc |-> "start",
                                   readFailed |-> FALSE, dlFailed |-> FALSE,
                                   mediaPath |-> FALSE, failed |-> FALSE,
                                   seen |-> wseen, redelivered |-> redelivered])
                     t == Tally(batch, r, TRUE)
                 IN /\ wseen' = r.seen
                    /\ redelivered' = r.redelivered
                    /\ handlers' = IF r.pc = "done" THEN handlers
                                   ELSE Append(handlers,
                                               [f \in DOMAIN r \ {"seen", "redelivered"}
                                                   |-> r[f]])
                    /\ settled' = settled + t.settled
                    /\ accepted' = accepted + t.accepted
    /\ UNCHANGED notInboxVars
    /\ UNCHANGED <<ipc, dispatched, failedIds>>

\* await sock.readMessages settled; a rejection is caught and logged
\* (provider-web.ts:285-305).
ReadSettled ==
    /\ cmd = "relay-web"
    /\ \E k \in DOMAIN handlers, ok \in BOOLEAN :
         /\ handlers[k].pc = "read"
         /\ LET h == Running(handlers[k])
                r == IF ok THEN AfterRead(h) ELSE ReadFailed(h)
                t == Tally(h.queue, r, FALSE)
            IN /\ wseen' = r.seen
               /\ redelivered' = r.redelivered
               /\ handlers' = Resumed(k, r)
               /\ settled' = settled + t.settled
               /\ accepted' = accepted + t.accepted
    /\ UNCHANGED notInboxVars
    /\ UNCHANGED <<ipc, arrived, dispatched, eligible, failedIds>>

\* await downloadInboundMedia settled (provider-web.ts:309-320, 592-629): with
\* a buffer, saveMediaBuffer is awaited; with none, or when the download
\* failed, onMessage is called (provider-web.ts:321-366).
DownloadSettled ==
    /\ cmd = "relay-web"
    /\ \E k \in DOMAIN handlers, ok \in BOOLEAN :
         /\ handlers[k].pc = "download"
         /\ LET m == Head(handlers[k].queue)
            IN IF m.content = "media" /\ ok
               THEN /\ handlers' = [handlers EXCEPT ![k].pc = "save"]
                    /\ UNCHANGED dispatched
               ELSE /\ handlers' = [handlers EXCEPT ![k].pc = "onMessage",
                                                    ![k].dlFailed = m.content = "media"]
                    /\ dispatched' = [dispatched EXCEPT ![m.id] = @ + 1]
    /\ UNCHANGED notInboxVars
    /\ UNCHANGED <<ipc, wseen, arrived, redelivered, accepted, settled, eligible,
                   failedIds>>

\* await saveMediaBuffer settled; a rejection is caught (provider-web.ts:311-320),
\* then onMessage is called (provider-web.ts:321-366).
SaveSettled ==
    /\ cmd = "relay-web"
    /\ \E k \in DOMAIN handlers, ok \in BOOLEAN :
         /\ handlers[k].pc = "save"
         /\ handlers' = [handlers EXCEPT ![k].pc = "onMessage",
                                         ![k].dlFailed = ~ok,
                                         ![k].mediaPath = ok]
         /\ dispatched' = [dispatched EXCEPT ![Head(handlers[k].queue).id] = @ + 1]
    /\ UNCHANGED notInboxVars
    /\ UNCHANGED <<ipc, wseen, arrived, redelivered, accepted, settled, eligible,
                   failedIds>>

\* await options.onMessage settled; a rejection is caught and logged
\* (provider-web.ts:353-372), the loop goes on with the next message.
OnMessageSettled ==
    /\ cmd = "relay-web"
    /\ \E k \in DOMAIN handlers, rejected \in BOOLEAN :
         /\ handlers[k].pc = "onMessage"
         /\ LET h == Running(handlers[k])
                r == IF rejected THEN OnMessageRejected(h)
                     ELSE Advance([h EXCEPT !.queue = Tail(@)])
                t == Tally(h.queue, r, FALSE)
            IN /\ wseen' = r.seen
               /\ redelivered' = r.redelivered
               /\ handlers' = Resumed(k, r)
               /\ settled' = settled + t.settled
               /\ accepted' = accepted + t.accepted
               /\ failedIds' = IF rejected THEN failedIds \cup {Head(h.queue).id}
                                ELSE failedIds
    /\ UNCHANGED notInboxVars
    /\ UNCHANGED <<ipc, arrived, dispatched, eligible>>

InboxNext ==
    \/ Upsert
    \/ ReadSettled
    \/ DownloadSettled
    \/ SaveSettled
    \/ OnMessageSettled

----------------------------------------------------------------------------
(* close of the listener monitorWebInbox returns: provider-web.ts:375-383 *)

\* How close settles when sock.ws?.close() threw or not: the catch logs the
\* error (provider-web.ts:379-381), so close is fulfilled either way.
CloseSettlesRethrows(threw) == IF threw THEN "rejected" ELSE "fulfilled"
CloseSettles(threw) == "fulfilled"

\* The listener has returned its close; the connection is open, was closed
\* already, or the socket has no ws.
CloseInit ==
    /\ cmd = "close"
    /\ ws \in {"open", "closed", "absent"}
    /\ closeLog = <<>>
    /\ fetched = <<>>
    /\ emitted = <<>>
    /\ wmsg = NoMessage
    /\ body = "unset"
    /\ webSend = NoWebSend
    /\ tg = NoTg

\* One call of close (provider-web.ts:376-382).  Without a ws the optional
\* call does nothing.  ws.close() closes the connection, or throws: what a
\* throwing close leaves of an open connection is up to the socket.
CloseCalled ==
    /\ cmd = "close"
    /\ Len(closeLog) < MaxCloses
    /\ \E threw \in BOOLEAN, after \in {"open", "closed"} :
         /\ ws = "absent" => ~threw
         /\ ws' = IF ws = "absent" THEN "absent"
                  ELSE IF threw /\ ws = "open" THEN after
                  ELSE "closed"
         /\ closeLog' = Append(closeLog, [met |-> ws, threw |-> threw,
                                          settled |-> CloseSettles(threw)])
    /\ UNCHANGED notUnitVars
    /\ UNCHANGED <<fetched, emitted, wmsg, body, webSend, tg>>

----------------------------------------------------------------------------
(* The body of one message on its own: provider-web.ts:301-305 *)

BodyInit ==
    /\ cmd = "body"
    /\ wmsg \in Messages
    /\ body = "unset"
    /\ fetched = <<>>
    /\ emitted = <<>>
    /\ ws = "absent"
    /\ closeLog = <<>>
    /\ webSend = NoWebSend
    /\ tg = NoTg

BodyRun ==
    /\ cmd = "body"
    /\ body = "unset"
    /\ body' = BodyOf(wmsg)
    /\ UNCHANGED notUnitVars
    /\ UNCHANGED <<fetched, emitted, ws, closeLog, wmsg, webSend, tg>>

----------------------------------------------------------------------------
(* The relay command (src/src/cli/program.ts:174-214) and pickProvider     *)
(* (src/src/provider-web.ts:559-565)                                       *)

\* webAuthExists (provider-web.ts:224-229): fs.access(WA_WEB_AUTH_DIR)
\* succeeds when the directory is there, with or without credentials in it.
webAuthExists(dir) == dir # "absent"

\* pickProvider (provider-web.ts:559-565)
pickProvider(pref, dir) ==
    IF pref # "auto" THEN pref
    ELSE IF webAuthExists(dir) THEN "web"
    ELSE "twilio"

\* What Number.parseInt gives for an option that is not a number.
NaN == -999

\* The option checks of the relay action (program.ts:176-190).
OptsValid(pref, interval, lookback) ==
    /\ pref \in {"auto", "web", "twilio"}
    /\ ~(interval = NaN \/ interval <= 0)
    /\ ~(lookback = NaN \/ lookback < 0)

\* ensureTwilioEnv (src/env.js, program.ts:211): the process exits when the
\* Twilio configuration is missing, before any transport starts.
ensureTwilioEnv(env) == IF env THEN "ok" ELSE "exit"

\* ensureTwilioEnv(); logTwilioFrom(); await monitorTwilio(...)
\* (program.ts:211-213), as [rpc, started, relayExit].
TwilioPath(startedSoFar, env) ==
    IF ensureTwilioEnv(env) = "ok"
    THEN [rpc |-> "twilio_running", started |-> Append(startedSoFar, "twilio"),
          relayExit |-> {}]
    ELSE [rpc |-> "exited", started |-> startedSoFar, relayExit |-> {1}]

\* if (providerPref === "auto") in the catch (program.ts:200)
FallsBackAlways(pref) == TRUE
FallsBack(pref) == pref = "auto"

RelayInit ==
    /\ cmd = "relay"
    /\ providerPref \in {"auto", "web", "twilio", "other"}
    /\ intervalOpt \in {NaN, 0, 5}
    /\ lookbackOpt \in {NaN, -1, 0}
    /\ twilioEnv \in BOOLEAN
    /\ LoginAtRest
    /\ authDir \in {"absent", "empty", "creds"}
    /\ rpc = "start"
    /\ provider = "none"
    /\ started = <<>>
    /\ relayExit = {}
    /\ webConn = "none"

RelayIdle ==
    /\ providerPref = "auto"
    /\ intervalOpt = 5
    /\ lookbackOpt = 0
    /\ twilioEnv = TRUE
    /\ rpc = "idle"
    /\ provider = "none"
    /\ started = <<>>
    /\ relayExit = {}
    /\ webConn = "none"

\* The relay action up to its first pending await (program.ts:174-213): the
\* options are checked, pickProvider settles, then monitorWebProvider is
\* called (it awaits createWaSocket) or the poll transport is started.
RelayStarted ==
    /\ cmd = "relay"
    /\ rpc = "start"
    /\ IF ~OptsValid(providerPref, intervalOpt, lookbackOpt)
       THEN /\ rpc' = "exited"
            /\ relayExit' = {1}
            /\ UNCHANGED <<provider, started>>
       ELSE LET p == pickProvider(providerPref, authDir)
                t == TwilioPath(started, twilioEnv)
            IN /\ provider' = p
               /\ IF p = "web"
                  THEN /\ rpc' = "web_connect"
                       /\ started' = Append(started, "web")
                       /\ UNCHANGED relayExit
                  ELSE /\ rpc' = t.rpc
                       /\ started' = t.started
                       /\ relayExit' = t.relayExit
    /\ UNCHANGED notRelayVars
    /\ UNCHANGED <<providerPref, intervalOpt, lookbackOpt, twilioEnv, authDir,
                   webConn>>

\* monitorWebInbox connected (provider-web.ts:255-256): the listener is
\* registered and monitorWebProvider waits forever (provider-web.ts:523-525).
RelayWebConnected ==
    /\ cmd = "relay"
    /\ rpc = "web_connect"
    /\ authDir' = EnsureDir(authDir)
    /\ rpc' = "web_running"
    /\ webConn' = "open"
    /\ UNCHANGED notRelayVars
    /\ UNCHANGED <<providerPref, intervalOpt, lookbackOpt, twilioEnv, provider,
                   started, relayExit>>

\* createWaSocket or waitForWaConnection rejected (provider-web.ts:255-256),
\* so monitorWebProvider rejected: the catch of the relay action
\* (program.ts:199-208), then the poll transport when it falls through.
RelayWebFailed ==
    /\ cmd = "relay"
    /\ rpc = "web_connect"
    /\ authDir' \in {authDir, EnsureDir(authDir)}
    /\ LET t == TwilioPath(started, twilioEnv)
       IN IF FallsBack(providerPref)
          THEN /\ rpc' = t.rpc
               /\ started' = t.started
               /\ relayExit' = t.relayExit
          ELSE /\ rpc' = "exited"
               /\ relayExit' = {1}
               /\ UNCHANGED started
    /\ UNCHANGED notRelayVars
    /\ UNCHANGED <<providerPref, intervalOpt, lookbackOpt, twilioEnv, provider,
                   webConn>>

\* What a connection.update with connection "close" does to the relay once
\* monitorWebProvider waits forever: the only handler left is the one of
\* createWaSocket (provider-web.ts:60-82), which prints a line for a
\* logged-out session and nothing else; waitForWaConnection's handler has
\* settled its promise, and monitorWebInbox registers none
\* (provider-web.ts:255-270).  So the await of waitForever goes on
\* (provider-web.ts:523-525).
OnCloseWhileRunning(pref, env) == "web_running"

\* The connection of the listener closes after it had opened, with any
\* status code or none.
RelayWebClosed ==
    /\ cmd = "relay"
    /\ rpc = "web_running"
    /\ webConn = "open"
    /\ \E code \in CloseCodes \cup {NoDisconnect} :
         /\ webConn' = "closed"
         /\ rpc' = OnCloseWhileRunning(providerPref, twilioEnv)
    /\ UNCHANGED notRelayVars
    /\ UNCHANGED <<providerPref, intervalOpt, lookbackOpt, twilioEnv, provider,
                   started, relayExit, authDir>>

\* The next command after warelay login has ended (loginWeb settled and its
\* close timers fired): warelay relay, started with valid options on what
\* the login left on disk (program.ts:174-192).
RelayAfterLogin ==
    /\ cmd = "login"
    /\ lpc = "done"
    /\ timers = {}
    /\ cmd' = "relay"
    /\ providerPref' \in {"auto", "web", "twilio"}
    /\ twilioEnv' \in BOOLEAN
    /\ rpc' = "start"
    /\ UNCHANGED <<monVars, sendVars, loginVars, inboxVars, mediaVars, webhookVars,
                   calls, unitVars>>
    /\ UNCHANGED <<intervalOpt, lookbackOpt, provider, started, relayExit, webConn>>

RelayNext ==
    \/ RelayStarted
    \/ RelayWebConnected
    \/ RelayWebFailed
    \/ RelayWebClosed

----------------------------------------------------------------------------
(* loadWebMedia (src/src/provider-web.ts:631-666)                          *)

\* const MAX_WEB_BYTES = 16 * 1024 * 1024  (provider-web.ts:634)
MAX_WEB_BYTES == 16 * 1024 * 1024

\* The references loadWebMedia is given: the prefixes of the string, then
\* the rest of it.
MediaRefs ==
    {<<"path">>, <<"file://", "path">>, <<"FILE://", "path">>,
     <<"http://", "path">>, <<"https://", "path">>, <<"HTTPS://", "path">>,
     <<"file://", "https://", "path">>}

\* What the world answers: fetch resolves with a response that is ok, not ok
\* (an HTTP error status) or without a body, or it rejects; fs.readFile
\* resolves ("ok") or rejects.  size is the length of the payload in bytes.
MediaIo ==
    [outcome : {"ok", "not-ok", "no-body", "rejected"},
     size : {0, 1, MAX_WEB_BYTES - 1, MAX_WEB_BYTES, MAX_WEB_BYTES + 1,
             2 * MAX_WEB_BYTES}]

\* (length / (1024 * 1024)).toFixed(1)  (provider-web.ts:646-648, 660-662):
\* the size in MB rounded to one decimal, as a number of tenths.
ToFixed1(length) == (length * 20 + 1024 * 1024) \div (2 * 1024 * 1024)

\* array.length > MAX_WEB_BYTES  (provider-web.ts:644, 658)
ExceedsCapOffByOne(length) == length > MAX_WEB_BYTES + 1
ExceedsCapInclusive(length) == length >= MAX_WEB_BYTES
ExceedsCap(length) == length > MAX_WEB_BYTES

\* loadWebMedia (provider-web.ts:631-666) on reference ref when the world
\* answers io: the buffer returned, or the error thrown.
loadWebMedia(ref, io) ==
    LET url == IF Head(ref) = "file://" THEN Tail(ref) ELSE ref
        remote == Head(url) \in {"http://", "https://", "HTTP://", "HTTPS://"}
        thrown(e) == [called |-> TRUE, ok |-> FALSE, length |-> 0, error |-> e,
                      limitMB |-> 0, gotTenths |-> 0]
        checked == IF ExceedsCap(io.size)
                   THEN [called |-> TRUE, ok |-> FALSE, length |-> 0,
                         error |-> "Media exceeds limit",
                         limitMB |-> MAX_WEB_BYTES \div (1024 * 1024),
                         gotTenths |-> ToFixed1(io.size)]
                   ELSE [called |-> TRUE, ok |-> TRUE, length |-> io.size,
                         error |-> "", limitMB |-> 0, gotTenths |-> 0]
    IN IF remote
       THEN IF io.outcome = "rejected" THEN thrown("fetch rejected")
            ELSE IF io.outcome \in {"not-ok", "no-body"}
                 THEN thrown("Failed to fetch media: HTTP")
            ELSE checked
       ELSE IF io.outcome # "ok" THEN thrown("readFile rejected")
            ELSE checked

MediaInit ==
    /\ cmd = "load-media"
    /\ mediaUrl \in MediaRefs
    /\ mediaIo \in MediaIo
    /\ mediaResult = [called |-> FALSE]

MediaIdle ==
    /\ mediaUrl = <<"path">>
    /\ mediaIo = [outcome |-> "rejected", size |-> 0]
    /\ mediaResult = [called |-> FALSE]

\* One call of loadWebMedia settles.
LoadWebMediaSettled ==
    /\ cmd = "load-media"
    /\ ~mediaResult.called
    /\ mediaResult' = loadWebMedia(mediaUrl, mediaIo)
    /\ UNCHANGED notMediaVars
    /\ UNCHANGED <<mediaUrl, mediaIo>>

----------------------------------------------------------------------------
(* startWebhook: the POST handler (src/src/index.ts:289-323)               *)

Reqs == {"req1", "req2", "req3"}

\* res.type('text/xml').send('<Response></Response>')  (index.ts:322)
Respond(req) ==
    [req EXCEPT !.pc = "responded", !.responses = @ + 1, !.status = 200,
                !.body = "<Response></Response>"]

\* After client.messages.create settled, or createClient threw
\* (index.ts:305-322): a failure is caught and logged, then the response.
AfterCreateUncaught(req, ok) ==
    IF ok THEN Respond([req EXCEPT !.reply = "sent"])
    ELSE [req EXCEPT !.pc = "rejected", !.reply = "failed"]
AfterCreate(req, ok) ==
    Respond([req EXCEPT !.reply = IF ok THEN "sent" ELSE "failed"])

\* if (replyText) with replyText = text (index.ts:305-311): createClient,
\* which may throw, then client.messages.create is awaited.
WithReply(req, text, clientOk) ==
    IF text = "" THEN Respond(req)
    ELSE IF clientOk THEN [req EXCEPT !.pc = "creating"]
    ELSE AfterCreate(req, FALSE)

WebhookInit ==
    /\ cmd = "webhook"
    /\ autoReply \in {"", "Got it!"}
    /\ reqs = [r \in Reqs |-> [pc |-> "none", responses |-> 0, status |-> 0,
                               body |-> "", reply |-> "none"]]

WebhookIdle ==
    /\ autoReply = ""
    /\ reqs = [r \in Reqs |-> [pc |-> "idle", responses |-> 0, status |-> 0,
                               body |-> "", reply |-> "none"]]

\* A POST to the path arrives (index.ts:289-299): with --reply the handler
\* goes on to the reply, without it getReplyFromConfig is awaited.
WebhookPost ==
    /\ cmd = "webhook"
    /\ \E r \in Reqs, clientOk \in BOOLEAN :
         /\ reqs[r].pc = "none"
         /\ reqs' = [reqs EXCEPT ![r] =
                        IF autoReply # "" THEN WithReply(@, autoReply, clientOk)
                        ELSE [@ EXCEPT !.pc = "resolving"]]
    /\ UNCHANGED notWebhookVars
    /\ UNCHANGED autoReply

\* await getReplyFromConfig settled (index.ts:297-302, 170-196): a text, or
\* nothing (no reply configured, an empty text, or the command failed, which
\* getReplyFromConfig catches).
WebhookReplyResolved ==
    /\ cmd = "webhook"
    /\ \E r \in Reqs, text \in {"", "configured"}, clientOk \in BOOLEAN :
         /\ reqs[r].pc = "resolving"
         /\ reqs' = [reqs EXCEPT ![r] = WithReply(@, text, clientOk)]
    /\ UNCHANGED notWebhookVars
    /\ UNCHANGED autoReply

\* await client.messages.create settled (index.ts:308-319).
WebhookCreateSettled ==
    /\ cmd = "webhook"
    /\ \E r \in Reqs, ok \in BOOLEAN :
         /\ reqs[r].pc = "creating"
         /\ reqs' = [reqs EXCEPT ![r] = AfterCreate(@, ok)]
    /\ UNCHANGED notWebhookVars
    /\ UNCHANGED autoReply

WebhookNext ==
    \/ WebhookPost
    \/ WebhookReplyResolved
    \/ WebhookCreateSettled

----------------------------------------------------------------------------
(* onMessage of monitorWebProvider (src/src/provider-web.ts:397-509)       *)

\* The invocations of onMessage, one per dispatched message; they share no
\* state.
Calls == {"call1", "call2"}

\* What replyResolver resolves with: nothing (defined is FALSE), or a result
\* whose text and mediaUrl are each there and non-empty, or not.
ReplyResults ==
    {r \in [defined : BOOLEAN, text : BOOLEAN, media : BOOLEAN] :
        ~r.defined => ~r.text /\ ~r.media}

\* !replyResult || (!replyResult.text && !replyResult.mediaUrl)
\* (provider-web.ts:418)
NothingToSendUndefinedOnly(rr) == ~rr.defined
NothingToSend(rr) == ~rr.defined \/ (~rr.text /\ ~rr.media)

\* msg.reply(text) is called and awaited (provider-web.ts:457, 476).
CallReply(c) == [c EXCEPT !.pc = "reply", !.sends = Append(@, "reply")]

\* The lines after the inner try (provider-web.ts:478-501): the reply is
\* reported, and onMessage returns.
Reported(c) == [c EXCEPT !.pc = "resolved", !.logs = @ \cup {"auto-replied"}]

\* The inner catch (provider-web.ts:452-474): loadWebMedia or msg.sendMedia
\* threw; the failure is logged, and the text, when there is one, is sent alone.
MediaFailedNoFallback(c) ==
    Reported([c EXCEPT !.mediaFailed = TRUE, !.logs = @ \cup {"media-failed"}])
MediaFailed(c) ==
    LET logged == [c EXCEPT !.mediaFailed = TRUE, !.logs = @ \cup {"media-failed"}]
    IN IF c.rr.text THEN CallReply(logged) ELSE Reported(logged)

\* msg.sendMedia resolved (provider-web.ts:437-451, 478-501): the media reply,
\* which carries the text as its caption, is logged and reported.
MediaSentThenText(c) ==
    LET sent == [c EXCEPT !.delivered = Append(@, "sendMedia"),
                          !.logs = @ \cup {"sent-media"}]
    IN IF c.rr.text THEN CallReply(sent) ELSE Reported(sent)
MediaSent(c) ==
    Reported([c EXCEPT !.delivered = Append(@, "sendMedia"),
                       !.logs = @ \cup {"sent-media"}])

\* onMessage has been called and awaits replyResolver (provider-web.ts:397-417).
ReplyInit ==
    /\ cmd = "on-message"
    /\ calls = [c \in Calls |->
                  [pc |-> "resolve", rr |-> [defined |-> FALSE, text |-> FALSE,
                                             media |-> FALSE],
                   sends |-> <<>>, delivered |-> <<>>, logs |-> {},
                   mediaFailed |-> FALSE]]

ReplyIdle ==
    calls = [c \in Calls |->
                [pc |-> "idle", rr |-> [defined |-> FALSE, text |-> FALSE,
                                        media |-> FALSE],
                 sends |-> <<>>, delivered |-> <<>>, logs |-> {},
                 mediaFailed |-> FALSE]]

\* await replyResolver settled (provider-web.ts:404-426, 476): it threw, and
\* onMessage rejects; or it returned rr, and onMessage returns, loads the
\* media or sends the text.
ResolverSettled ==
    /\ cmd = "on-message"
    /\ \E c \in Calls, threw \in BOOLEAN, rr \in ReplyResults :
         /\ calls[c].pc = "resolve"
         /\ calls' = [calls EXCEPT ![c] =
               IF threw THEN [@ EXCEPT !.pc = "rejected"]
               ELSE IF NothingToSend(rr)
                    THEN [@ EXCEPT !.rr = rr, !.pc = "resolved",
                                   !.logs = @ \cup {"skipped"}]
               ELSE IF rr.media THEN [@ EXCEPT !.rr = rr, !.pc = "load"]
               ELSE CallReply([@ EXCEPT !.rr = rr])]
    /\ UNCHANGED notReplyVars

\* await loadWebMedia settled (provider-web.ts:426-436): msg.sendMedia is
\* called with the buffer, or the inner catch runs.
LoadMediaSettled ==
    /\ cmd = "on-message"
    /\ \E c \in Calls, ref \in MediaRefs, io \in MediaIo :
         /\ calls[c].pc = "load"
         /\ calls' = [calls EXCEPT ![c] =
               IF loadWebMedia(ref, io).ok
               THEN [@ EXCEPT !.pc = "sendMedia", !.sends = Append(@, "sendMedia")]
               ELSE MediaFailed(@)]
    /\ UNCHANGED notReplyVars

\* await msg.sendMedia settled (provider-web.ts:432-451).
SendMediaSettled ==
    /\ cmd = "on-message"
    /\ \E c \in Calls, ok \in BOOLEAN :
         /\ calls[c].pc = "sendMedia"
         /\ calls' = [calls EXCEPT ![c] =
               IF ok
               THEN MediaSent(@)
               ELSE MediaFailed(@)]
    /\ UNCHANGED notReplyVars

\* await msg.reply settled (provider-web.ts:457-508): the reply is reported,
\* or the outer catch logs the failure; onMessage returns.
ReplySettled ==
    /\ cmd = "on-message"
    /\ \E c \in Calls, ok \in BOOLEAN :
         /\ calls[c].pc = "reply"
         /\ calls' = [calls EXCEPT ![c] =
               IF ok
               THEN Reported([@ EXCEPT !.delivered = Append(@, "reply")])
               ELSE [@ EXCEPT !.pc = "resolved",
                              !.logs = @ \cup {"reply-failed"}]]
    /\ UNCHANGED notReplyVars

ReplyNext ==
    \/ ResolverSettled
    \/ LoadMediaSettled
    \/ SendMediaSettled
    \/ ReplySettled

----------------------------------------------------------------------------
(* sendMessageWeb (src/src/provider-web.ts:114-153)                        *)

\* What sendMessageWeb leaves alone; its createWaSocket writes authDir.
notWebSendVars == <<cmd, monVars, sendVars, inboxVars, relayVars, mediaVars,
                    webhookVars, calls, lpc, socks, hasOff, timers, reconnects,
                    told, loginResult, fetched, emitted, closeLog, wmsg, body, tg>>

\* Whether the finally block (provider-web.ts:146-152) runs when the try
\* block threw, or returned: it runs either way.
FinallyRunsOnReturnOnly(threw) == ~threw
FinallyRuns(threw) == TRUE

\* The try block ended, with `threw` at `step` or with its return: the
\* finally calls sock.ws?.close() and sendMessageWeb settles.
Settled(w, threw, step) ==
    [w EXCEPT !.pc = "done",
              !.result = IF threw THEN "rejected" ELSE "returned",
              !.failedAt = IF threw THEN step ELSE "none",
              !.closeCalls = IF FinallyRuns(threw) THEN @ + 1 ELSE @]

\* sock.ws after the try block ended.
WsAfter(threw) == IF FinallyRuns(threw) THEN "closed" ELSE ws

\* sendMessageWeb has been called and awaits createWaSocket
\* (provider-web.ts:119).
WebSendInit ==
    /\ cmd = "send-web"
    /\ \E media \in BOOLEAN :
         webSend = [NoWebSend EXCEPT !.pc = "create", !.media = media]
    /\ ws = "absent"
    /\ fetched = <<>>
    /\ emitted = <<>>
    /\ closeLog = <<>>
    /\ wmsg = NoMessage
    /\ body = "unset"
    /\ tg = NoTg

\* await createWaSocket settled (provider-web.ts:119): it is outside the try;
\* when it rejects, before or after ensureDir, there is no socket.
WebSendSocketSettled ==
    /\ cmd = "send-web"
    /\ webSend.pc = "create"
    /\ \E ok \in BOOLEAN :
         IF ok
         THEN /\ webSend' = [webSend EXCEPT !.pc = "connect"]
              /\ ws' = "open"
              /\ authDir' = EnsureDir(authDir)
         ELSE /\ webSend' = [webSend EXCEPT !.pc = "done", !.result = "rejected",
                                            !.failedAt = "create"]
              /\ ws' = ws
              /\ authDir' \in {authDir, EnsureDir(authDir)}
    /\ UNCHANGED notWebSendVars

\* await waitForWaConnection settled (provider-web.ts:122-124).
WebSendConnectSettled ==
    /\ cmd = "send-web"
    /\ webSend.pc = "connect"
    /\ \E ok \in BOOLEAN :
         IF ok
         THEN /\ webSend' = [webSend EXCEPT !.pc = "presence"]
              /\ ws' = ws
         ELSE /\ webSend' = Settled(webSend, TRUE, "connect")
              /\ ws' = WsAfter(TRUE)
    /\ UNCHANGED <<notWebSendVars, authDir>>

\* await sock.sendPresenceUpdate settled; a rejection is caught
\* (provider-web.ts:124-131).
WebSendPresenceSettled ==
    /\ cmd = "send-web"
    /\ webSend.pc = "presence"
    /\ webSend' = [webSend EXCEPT !.pc = IF webSend.media THEN "load" ELSE "send"]
    /\ UNCHANGED <<notWebSendVars, authDir, ws>>

\* await loadWebMedia settled (provider-web.ts:130-141).
WebSendMediaSettled ==
    /\ cmd = "send-web"
    /\ webSend.pc = "load"
    /\ \E ref \in MediaRefs, io \in MediaIo :
         IF loadWebMedia(ref, io).ok
         THEN /\ webSend' = [webSend EXCEPT !.pc = "send"]
              /\ ws' = ws
         ELSE /\ webSend' = Settled(webSend, TRUE, "load")
              /\ ws' = WsAfter(TRUE)
    /\ UNCHANGED <<notWebSendVars, authDir>>

\* await sock.sendMessage settled (provider-web.ts:141-153).
WebSendMessageSettled ==
    /\ cmd = "send-web"
    /\ webSend.pc = "send"
    /\ \E ok \in BOOLEAN :
         /\ webSend' = Settled(webSend, ~ok, "send")
         /\ ws' = WsAfter(~ok)
    /\ UNCHANGED <<notWebSendVars, authDir>>

WebSendNext ==
    \/ WebSendSocketSettled
    \/ WebSendConnectSettled
    \/ WebSendPresenceSettled
    \/ WebSendMediaSettled
    \/ WebSendMessageSettled

----------------------------------------------------------------------------
(* promptTelegramAllowFrom                                                 *)
(* (src/src/channels/plugins/onboarding/telegram.ts:59-120)                *)

\* The entries of an allowFrom list, Array<string | number>: v is what
\* String(item) gives.  A user id, the same id with a blank after it, the
\* same id as a number, another id, a blank and an empty entry.
AllowItems ==
    {[num |-> FALSE, v |-> x] : x \in {"7", "7 ", "8", " ", ""}}
        \cup {[num |-> TRUE, v |-> "7"]}

\* What prompter.text may return: validate lets through what is digits once
\* trimmed (telegram.ts:71-76).
EnteredIds == {"7", "7 ", "8"}

\* existingAllowFrom.map((item) => String(item).trim()).filter(Boolean)
\* (telegram.ts:80)
RECURSIVE Normalized(_)
Normalized(items) ==
    IF items = <<>> THEN <<>>
    ELSE LET x == Trim(Head(items).v)
         IN IF x = "" THEN Normalized(Tail(items))
            ELSE <<x>> \o Normalized(Tail(items))

\* [...new Set(merged)] (telegram.ts:83): the first occurrence of each
\* string, in order.
UniqueKeepsAll(list) == list
RECURSIVE Unique(_)
Unique(list) ==
    IF list = <<>> THEN <<>>
    ELSE LET front == Unique(SubSeq(list, 1, Len(list) - 1))
             last == list[Len(list)]
         IN IF \E i \in DOMAIN front : front[i] = last THEN front
            ELSE Append(front, last)

\* `unique` of promptTelegramAllowFrom (telegram.ts:78-83).
MergedAllowFrom(existing, entry) ==
    Unique(Normalized(existing) \o <<Trim(entry)>>)

\* A list of strings as the entries of an allowFrom.
AsItems(list) == [i \in DOMAIN list |-> [num |-> FALSE, v |-> list[i]]]

\* The onboarding wizard is about to call promptTelegramAllowFrom for an
\* account whose resolved allowFrom is `existing` (telegram.ts:64-66).
TelegramInit ==
    /\ cmd = "telegram-allow"
    /\ \E existing \in SeqsUpTo(AllowItems, MaxAllow), entered \in EnteredIds,
          accountId \in {"default", "work"}, policy \in {"pairing", "open"} :
         tg = [NoTg EXCEPT !.existing = existing, !.entered = entered,
                           !.accountId = accountId, !.dmPolicy = policy]
    /\ fetched = <<>>
    /\ emitted = <<>>
    /\ ws = "absent"
    /\ closeLog = <<>>
    /\ wmsg = NoMessage
    /\ body = "unset"
    /\ webSend = NoWebSend

\* One run of promptTelegramAllowFrom with the id entered (telegram.ts:59-120):
\* allowFrom and dmPolicy are written at channels.telegram for the default
\* account and at channels.telegram.accounts[accountId] for another one.  A
\* second run resolves the account again: it reads the list the first run
\* wrote or, when the account takes its allowFrom from the other level, the
\* list it had.
TelegramPrompt ==
    /\ cmd = "telegram-allow"
    /\ tg.runs < 2
    /\ \E readsWritten \in BOOLEAN :
         LET existing == IF tg.runs = 0 THEN tg.existing
                         ELSE IF readsWritten THEN AsItems(tg.allowFrom)
                         ELSE tg.existing
             unique == MergedAllowFrom(existing, tg.entered)
         IN /\ tg.runs = 0 => readsWritten
            /\ tg' = [tg EXCEPT !.runs = @ + 1,
                                !.dmPolicy = "allowlist",
                                !.allowFrom = unique,
                                !.first = IF tg.runs = 0 THEN unique ELSE @]
    /\ UNCHANGED notUnitVars
    /\ UNCHANGED <<fetched, emitted, ws, closeLog, wmsg, body, webSend>>

----------------------------------------------------------------------------
(* Specifications: one per command *)

\* monitor with the default --interval.
InitMonitor ==
    /\ MonitorInit /\ SendIdle /\ LoginIdle /\ InboxIdle /\ RelayIdle
    /\ MediaIdle /\ WebhookIdle /\ ReplyIdle
    /\ intervalSeconds = DefaultInterval
    /\ UnitIdle
SpecMonitor == InitMonitor /\ [][MonitorNext]_vars

\* monitor with any --interval and a provider that holds two inbound entries
\* and one outbound entry; neither the sleeps of the loop nor whether it ends
\* depend on what the entries are.
InitMonitorFair ==
    /\ MonitorInit /\ SendIdle /\ LoginIdle /\ InboxIdle /\ RelayIdle
    /\ MediaIdle /\ WebhookIdle /\ ReplyIdle
    /\ store["SM1"].direction = "inbound"
    /\ store["SM2"].direction = "inbound"
    /\ store["SM3"] = [direction |-> "outbound-api", dateCreated |-> NoDate]
    /\ UnitIdle

\* monitor under fairness: the pending client.messages.list settles and the
\* timer of sleep fires (index.ts:479, 504).
SpecMonitorFair ==
    /\ InitMonitorFair
    /\ [][MonitorNext]_vars
    /\ WF_vars(MonitorFetchOk \/ MonitorFetchError)
    /\ WF_vars(MonitorSleepDone)

\* monitor with a provider whose entries all have a creation time and that
\* honours the arguments of the fetch, every fetch resolving and nobody
\* stopping the loop.
InitPoll ==
    /\ InitMonitor
    /\ \A sid \in Sids : store[sid].dateCreated # NoDate

SpecPoll == InitPoll /\ [][MonitorFetchListed \/ MonitorSleepDone]_vars

InitIteration ==
    /\ IterationInit /\ SendIdle /\ LoginIdle /\ InboxIdle /\ RelayIdle
    /\ MediaIdle /\ WebhookIdle /\ ReplyIdle
SpecIteration == InitIteration /\ [][IterationRun]_vars

InitClose ==
    /\ CloseInit /\ MonitorIdle /\ SendIdle /\ LoginIdle /\ InboxIdle /\ RelayIdle
    /\ MediaIdle /\ WebhookIdle /\ ReplyIdle
SpecClose == InitClose /\ [][CloseCalled]_vars

InitBody ==
    /\ BodyInit /\ MonitorIdle /\ SendIdle /\ LoginIdle /\ InboxIdle /\ RelayIdle
    /\ MediaIdle /\ WebhookIdle /\ ReplyIdle
SpecBody == InitBody /\ [][BodyRun]_vars

InitSend ==
    /\ SendInit /\ MonitorIdle /\ LoginIdle /\ InboxIdle /\ RelayIdle
    /\ MediaIdle /\ WebhookIdle /\ ReplyIdle
    /\ UnitIdle
SpecSend == InitSend /\ [][SendNext]_vars

InitLogin ==
    /\ LoginInit /\ MonitorIdle /\ SendIdle /\ InboxIdle /\ RelayIdle
    /\ MediaIdle /\ WebhookIdle /\ ReplyIdle
    /\ UnitIdle
SpecLogin == InitLogin /\ [][LoginNext]_vars

\* warelay login on a machine without a credentials directory, then warelay
\* relay.
InitFresh ==
    /\ InitLogin
    /\ authDir = "absent"
SpecFresh == InitFresh /\ [][LoginNext \/ RelayAfterLogin \/ RelayNext]_vars

InitWebSend ==
    /\ WebSendInit /\ MonitorIdle /\ SendIdle /\ LoginAtRest /\ InboxIdle
    /\ RelayIdle /\ MediaIdle /\ WebhookIdle /\ ReplyIdle
    /\ authDir \in {"absent", "empty", "creds"}

\* The operations that open a socket for one task: loginWeb and
\* sendMessageWeb.
InitOneShot == InitLogin \/ InitWebSend
NextOneShot == LoginNext \/ WebSendNext
SpecOneShot == InitOneShot /\ [][NextOneShot]_vars

InitTelegram ==
    /\ TelegramInit /\ MonitorIdle /\ SendIdle /\ LoginIdle /\ InboxIdle
    /\ RelayIdle /\ MediaIdle /\ WebhookIdle /\ ReplyIdle
SpecTelegram == InitTelegram /\ [][TelegramPrompt]_vars

InitInbox ==
    /\ InboxInit /\ MonitorIdle /\ SendIdle /\ LoginIdle /\ RelayIdle
    /\ MediaIdle /\ WebhookIdle /\ ReplyIdle
    /\ UnitIdle
SpecInbox == InitInbox /\ [][InboxNext]_vars

\* Either inbound path: the poll loop or the web session listener.
InitInbound == InitMonitor \/ InitInbox
NextInbound == MonitorNext \/ InboxNext
SpecInbound == InitInbound /\ [][NextInbound]_vars

InitRelay ==
    /\ RelayInit /\ MonitorIdle /\ SendIdle /\ InboxIdle
    /\ MediaIdle /\ WebhookIdle /\ ReplyIdle
    /\ UnitIdle
SpecRelay == InitRelay /\ [][RelayNext]_vars

InitMedia ==
    /\ MediaInit /\ MonitorIdle /\ SendIdle /\ LoginIdle /\ InboxIdle /\ RelayIdle
    /\ WebhookIdle /\ ReplyIdle
    /\ UnitIdle
SpecMedia == InitMedia /\ [][LoadWebMediaSettled]_vars

InitWebhook ==
    /\ WebhookInit /\ MonitorIdle /\ SendIdle /\ LoginIdle /\ InboxIdle /\ RelayIdle
    /\ MediaIdle /\ ReplyIdle
    /\ UnitIdle
SpecWebhook == InitWebhook /\ [][WebhookNext]_vars

InitReply ==
    /\ ReplyInit /\ MonitorIdle /\ SendIdle /\ LoginIdle /\ InboxIdle /\ RelayIdle
    /\ MediaIdle /\ WebhookIdle
    /\ UnitIdle
SpecReply == InitReply /\ [][ReplyNext]_vars

\* Any command.
Init ==
    \/ InitMonitor \/ InitSend \/ InitLogin \/ InitInbox \/ InitRelay
    \/ InitMedia \/ InitWebhook \/ InitReply \/ InitIteration \/ InitClose
    \/ InitBody \/ InitWebSend \/ InitTelegram
Next ==
    \/ MonitorNext \/ SendNext \/ LoginNext \/ InboxNext \/ RelayNext
    \/ LoadWebMediaSettled \/ WebhookNext \/ ReplyNext \/ IterationRun
    \/ CloseCalled \/ BodyRun \/ WebSendNext \/ TelegramPrompt
Spec == Init /\ [][Next]_vars

----------------------------------------------------------------------------
(* Claims about both inbound paths (SpecInbound) *)

\* C1: whatever the fetches and the upserts deliver, however often an id
\* recurs, the poll loop prints a sid at most once and the web listener calls
\* onMessage at most once per message id.
C1_AtMostOncePerId ==
    /\ \A sid \in Sids : emitCount[sid] <= 1
    /\ \A id \in Ids : dispatched[id] <= 1

\* An id arrived a second time after onMessage was called for it, and was
\* skipped.
C1_Witness ==
    /\ arrived >= 2
    /\ \E id \in redelivered : dispatched[id] = 1

\* The same for the poll loop: a printed sid was fetched again and skipped.
C1_WitnessPoll == \E sid \in skipped : emitCount[sid] = 1

----------------------------------------------------------------------------
(* Claims about the poll loop (SpecMonitor) *)

\* The creation times of the entries accepted (printed) so far.
AcceptedDates ==
    {store[s].dateCreated : s \in {x \in Sids : emitCount[x] > 0}} \ {NoDate}

\* C2: the watermark `since` never decreases, whatever a fetch returns
\* (older entries, entries without a creation date) and when a fetch fails.
C2_WatermarkNonDecreasing == [][since' >= since]_vars

\* An entry older than the watermark and one without a creation date were
\* accepted, and the watermark stands above its initial value.
C2_Witness ==
    /\ since > since0
    /\ \E s \in Sids : /\ emitCount[s] > 0
                       /\ store[s].dateCreated # NoDate
                       /\ store[s].dateCreated < since
    /\ \E s \in Sids : emitCount[s] > 0 /\ store[s].dateCreated = NoDate

----------------------------------------------------------------------------
(* Claims about waitForFinalStatus (SpecSend) *)

Finished == spc \in {"returned", "exited", "threw"}
Last(q) == q[Len(q)]
AllNonTerminal == \A i \in DOMAIN observed : observed[i] \notin TerminalStatuses

\* C4: the statuses the dispatcher observes never hold a terminal status
\* followed by a non-terminal one, and once a terminal status is observed
\* nothing more is observed or fetched.
C4_TerminalIsFinal ==
    /\ [](\A i, j \in DOMAIN observed :
            (i < j /\ observed[i] \in TerminalStatuses)
                => observed[j] \in TerminalStatuses)
    /\ [][(observed # <<>> /\ Last(observed) \in TerminalStatuses)
            => (observed' = observed /\ fetches' = fetches)]_vars

\* A terminal status was observed after non-terminal ones and the call ended.
C4_Witness ==
    /\ Len(observed) >= 2
    /\ Last(observed) \in TerminalStatuses
    /\ Finished

\* At most the last observed status is terminal, and no fetch follows it.
StopsAtFirstTerminal ==
    /\ \A i \in 1..(Len(observed) - 1) : observed[i] \notin TerminalStatuses
    /\ fetches = Len(observed) + (IF spc \in {"fetching", "threw"} THEN 1 ELSE 0)

\* Success for delivered/read, exit code 1 for failed/undelivered/canceled.
ReportsTerminal ==
    (observed # <<>>) =>
        /\ Last(observed) \in successTerminalStatuses
             => (spc = "returned" /\ report = "delivered" /\ exitCode = {})
        /\ Last(observed) \in failureTerminalStatuses
             => (spc = "exited" /\ exitCode = {1})

\* Queued, Sent, Delivered: success after exactly the third poll.
ScenarioB ==
    (observed = <<"queued", "sent", "delivered">>)
        => (spc = "returned" /\ report = "delivered" /\ fetches = 3)

\* C5 as stated: ... and after any other status the call polls again, so it
\* never ends on a non-terminal status; after Queued, Sent a third poll comes.
C5_Original ==
    /\ StopsAtFirstTerminal
    /\ ReportsTerminal
    /\ ScenarioB
    /\ (observed # <<>> /\ Last(observed) \notin TerminalStatuses)
          => spc \in {"sleeping", "fetching", "threw"}

\* C5 amended: the call stops at the first terminal status and fetches no
\* more, reports success for delivered/read and exit code 1 for
\* failed/undelivered/canceled, and after any other status polls again unless
\* the deadline has passed by the end of the sleep (then it returns with the
\* in-flight report); Queued, Sent, Delivered give success after exactly the
\* third poll.
C5_StopsAtFirstTerminal ==
    /\ StopsAtFirstTerminal
    /\ ReportsTerminal
    /\ ScenarioB
    /\ (observed # <<>> /\ Last(observed) \notin TerminalStatuses)
          => \/ spc \in {"sleeping", "fetching", "threw"}
             \/ (spc = "returned" /\ report = "in-flight" /\ now >= deadline)

\* Scenario B has run: three polls, the third one delivered.
C5_Witness ==
    /\ observed = <<"queued", "sent", "delivered">>
    /\ spc = "returned"

\* C6: when the deadline passes and every fetched status was non-terminal,
\* waitForFinalStatus returns normally with the in-flight report: no exit
\* code 1, no error.
C6_TimeoutIsNotAnError ==
    (fetches > 0 /\ AllNonTerminal) =>
        /\ exitCode = {}
        /\ (Finished /\ spc # "threw")
             => (spc = "returned" /\ report = "in-flight" /\ now >= deadline)

\* The call timed out after two non-terminal statuses.
C6_Witness ==
    /\ spc = "returned"
    /\ report = "in-flight"
    /\ Len(observed) >= 2
    /\ AllNonTerminal

----------------------------------------------------------------------------
(* Claims about loginWeb and waitForWaConnection (SpecLogin) *)

FirstClosedWith(code) ==
    /\ socks["first"].promise = "rejected"
    /\ socks["first"].reason = code

\* C7: loginWeb reconnects exactly once when the first connection closes with
\* 515 and never otherwise; the retry socket shows no QR code; when the retry
\* opens the caller is told the session is linked.
C7_OneReconnectOn515 ==
    /\ Len(reconnects) <= 1
    /\ reconnects # <<>> => FirstClosedWith(RestartRequired)
    /\ lpc \in {"wait_retry", "done"}
         => (Len(reconnects) = 1 <=> FirstClosedWith(RestartRequired))
    /\ socks["retry"].made
         => (~socks["retry"].printQr /\ socks["retry"].qrShown = 0)
    /\ (lpc = "done" /\ socks["retry"].promise = "resolved")
         => (loginResult = "ok" /\ "linked-after-restart" \in told)

\* The first connection closed with 515; the retry got a QR update, which
\* was not shown, then opened, and loginWeb returned.
C7_Witness ==
    /\ lpc = "done"
    /\ FirstClosedWith(RestartRequired)
    /\ reconnects = <<"retry">>
    /\ socks["retry"].updates >= 2
    /\ socks["retry"].firstEvent.connection = "open"
    /\ socks["retry"].laterEvents = 0
    /\ loginResult = "ok"

\* C8: when the first connection closes with 515 and the retry closes before
\* opening too, the error loginWeb surfaces is that of the first connection.
C8_OriginalErrorSurfaced ==
    (lpc = "done" /\ reconnects = <<"retry">> /\ socks["retry"].promise = "rejected")
        => loginResult.from = "first"

\* C9: when the connection closes as logged out before opening, the
\* credential directory is deleted, no reconnect is made and loginWeb fails
\* with the error that asks for a new login.
C9_LoggedOutClearsCreds ==
    (lpc = "done" /\ FirstClosedWith(LoggedOut)) =>
        /\ authDir = "absent"
        /\ reconnects = <<>>
        /\ ~socks["retry"].made
        /\ loginResult = [kind |-> "Error",
                          text |-> "Session logged out; cache cleared. Re-run login.",
                          from |-> "first"]

\* The first connection closed as logged out and loginWeb has failed.
C9_Witness ==
    /\ lpc = "done"
    /\ FirstClosedWith(LoggedOut)
    /\ "logged-out-cleared" \in told

\* C10: the promise of waitForWaConnection settles once, as the first open or
\* close update says: resolved for open, rejected with lastDisconnect for
\* close; later updates change nothing.
C10_FirstUpdateDecides ==
    \A s \in Socks :
        LET k == socks[s] IN
        k.made =>
            /\ k.settles <= 1
            /\ k.firstEvent = NoUpdate => (k.promise = "pending" /\ k.settles = 0)
            /\ k.firstEvent.connection = "open"
                 => (k.promise = "resolved" /\ k.settles = 1)
            /\ k.firstEvent.connection = "close"
                 => /\ k.promise = "rejected"
                    /\ k.reason = k.firstEvent.ld
                    /\ k.settles = 1

\* A socket closed first and an open update reached the handler, still
\* registered, afterwards.
C10_Witness ==
    \E s \in Socks :
        /\ socks[s].firstEvent.connection = "close"
        /\ socks[s].laterEvents >= 1
        /\ socks[s].listening
        /\ socks[s].promise = "rejected"

----------------------------------------------------------------------------
(* More claims about the poll loop (SpecMonitor) *)

\* C20: a fetch that fails leaves the watermark, the SeenSet and what was
\* emitted as they are and takes the loop to its sleep; after the sleep the
\* loop condition alone decides, so the next iteration fetches again, and the
\* loop only ever ends after the stop signal.
C20_FetchErrorNonFatal ==
    /\ [][mpc = "fetch" /\ mpc' # "fetch" /\ lastFetch' = "error" =>
            /\ mpc' = "sleep"
            /\ since' = since
            /\ seen' = seen
            /\ emitCount' = emitCount
            /\ keepRunning' = keepRunning]_vars
    /\ [][mpc = "sleep" /\ mpc' # "sleep" =>
            mpc' = IF keepRunning THEN "fetch" ELSE "done"]_vars
    /\ [](mpc = "done" => ~keepRunning)

\* After a failed fetch and the sleep the loop fetches again, with what it
\* had emitted before the failure still in the SeenSet.
C20_Witness ==
    /\ lastFetch = "error"
    /\ mpc = "fetch"
    /\ keepRunning
    /\ seen # {}

----------------------------------------------------------------------------
(* Claims about the relay command (SpecRelay) *)

\* C11: pickProvider returns an explicit preference (web or twilio) as it
\* is, whatever the credential store holds; for auto it returns web exactly
\* when the credential store holds a credential snapshot, twilio otherwise.
C11_PickProvider ==
    provider # "none" =>
        IF providerPref # "auto" THEN provider = providerPref
        ELSE provider = (IF authDir = "creds" THEN "web" ELSE "twilio")

\* The session transport was selected and started, and failed to connect.
WebConnectFailed == provider = "web" /\ rpc \in {"twilio_running", "exited"}

\* preference web: the command ends with exit code 1 and the poll transport
\* is never started; preference twilio: the session transport is never started.
ExplicitIsFinal ==
    /\ WebConnectFailed /\ providerPref = "web" =>
          rpc = "exited" /\ relayExit = {1} /\ started = <<"web">>
    /\ providerPref = "twilio" => \A i \in DOMAIN started : started[i] # "web"

\* C12 as stated: when the session transport fails to connect under
\* preference auto, monitorTwilio is started as fallback; under preference
\* web the command exits with code 1 without starting the poll transport;
\* under preference twilio the session transport is never started.
C12_Original ==
    /\ WebConnectFailed /\ providerPref = "auto" => started = <<"web", "twilio">>
    /\ ExplicitIsFinal

\* C12, amended: under preference auto the relay falls through to the poll
\* transport, and monitorTwilio is started when the Twilio configuration is
\* there; when it is missing the command exits with code 1 without starting it.
C12_FallbackOnlyOnAuto ==
    /\ WebConnectFailed /\ providerPref = "auto" =>
          IF twilioEnv
          THEN rpc = "twilio_running" /\ started = <<"web", "twilio">> /\ relayExit = {}
          ELSE rpc = "exited" /\ started = <<"web">> /\ relayExit = {1}
    /\ ExplicitIsFinal

\* The session transport failed to connect under auto and monitorTwilio runs.
C12_Witness ==
    /\ providerPref = "auto"
    /\ WebConnectFailed
    /\ rpc = "twilio_running"
    /\ started = <<"web", "twilio">>

----------------------------------------------------------------------------
(* Claims about onMessage of monitorWebProvider (SpecReply) *)

\* How often onMessage called `what` (msg.reply or msg.sendMedia) in call c.
Sends(c, what) == Cardinality({i \in DOMAIN calls[c].sends : calls[c].sends[i] = what})

\* C13: when the resolver returns nothing, or a result with neither text nor
\* mediaUrl, onMessage returns without calling msg.reply or msg.sendMedia.
C13_NoReplyWithoutContent ==
    \A c \in Calls :
        calls[c].pc # "resolve" /\ ~calls[c].rr.text /\ ~calls[c].rr.media =>
            /\ calls[c].sends = <<>>
            /\ calls[c].delivered = <<>>
            /\ calls[c].pc \in {"resolved", "rejected"}

\* One call got nothing from the resolver and one got an empty result; both
\* returned.
C13_Witness ==
    \E a, b \in Calls :
        /\ calls[a].pc = "resolved" /\ ~calls[a].rr.defined
        /\ calls[b].pc = "resolved" /\ calls[b].rr.defined
        /\ ~calls[b].rr.text /\ ~calls[b].rr.media
        /\ "skipped" \in calls[a].logs \cap calls[b].logs

\* C14: when the resolver returned a mediaUrl and loading or sending the
\* media failed, onMessage calls msg.reply exactly once when the resolver
\* also returned text and not at all when it did not; no media goes out, the
\* failure is logged and onMessage does not reject.
C14_MediaFailureFallsBackToText ==
    \A c \in Calls :
        calls[c].mediaFailed =>
            /\ calls[c].rr.media
            /\ Sends(c, "reply") = (IF calls[c].rr.text THEN 1 ELSE 0)
            /\ Sends(c, "sendMedia") <= 1
            /\ \A i \in DOMAIN calls[c].delivered : calls[c].delivered[i] # "sendMedia"
            /\ "media-failed" \in calls[c].logs
            /\ calls[c].pc \in {"reply", "resolved"}
            /\ ~calls[c].rr.text => calls[c].pc = "resolved"

\* The media of one call could not be loaded and its text went out alone;
\* the media of the other could not be sent and it had no text.
C14_Witness ==
    \E a, b \in Calls :
        /\ calls[a].mediaFailed /\ calls[a].rr.text
        /\ calls[a].sends = <<"reply">> /\ calls[a].delivered = <<"reply">>
        /\ calls[a].pc = "resolved"
        /\ calls[b].mediaFailed /\ ~calls[b].rr.text
        /\ calls[b].sends = <<"sendMedia">> /\ calls[b].delivered = <<>>
        /\ calls[b].pc = "resolved"

----------------------------------------------------------------------------
(* Claims about a failed send (SpecSend) *)

\* C22: when client.messages.create is rejected the send is over: the code,
\* the message (or the error itself when it has none) and moreInfo of the
\* rejection are printed when the rejection carries them, the process exits
\* with code 1, and no status fetch of waitForFinalStatus is ever started.
C22_SendFailureIsFatal ==
    report = "send-failed" =>
        /\ spc = "exited"
        /\ exitCode = {1}
        /\ fetches = 0
        /\ observed = <<>>
        /\ deadline = 0
        /\ \A f \in {"code", "message", "moreInfo"} :
             sendFailure.err[f] <=> f \in sendFailure.printed
        /\ ~sendFailure.err.message <=> "error" \in sendFailure.printed

\* A rejection with a code, a message and moreInfo, with --wait above 0.
C22_Witness ==
    /\ report = "send-failed"
    /\ waitSeconds > 0
    /\ {"code", "message", "moreInfo"} \subseteq sendFailure.printed
    /\ exitCode = {1}

----------------------------------------------------------------------------
(* Claims about the stop signal of the poll loop (SpecMonitor) *)

\* What a fetch that resolves with `page` leaves in seen, since and emitCount.
Processed(page) ==
    LET st == ForEach([seen |-> seen, since |-> since, emitCount |-> emitCount,
                       skipped |-> skipped, out |-> <<>>],
                      SortByDate(FilterInbound(page)))
    IN <<st.seen, st.since, st.emitCount>>

\* C21: the stop signal only clears keepRunning, which is read after the
\* sleep: once it is cleared no new fetch is started, while a fetch that is
\* in progress when the signal comes still resolves, and the entries of its
\* page are deduplicated, emitted and advance the watermark as in any other
\* iteration before the loop sleeps.
C21_CooperativeStop ==
    /\ [][keepRunning' # keepRunning =>
            /\ ~keepRunning'
            /\ mpc' = mpc
            /\ since' = since
            /\ seen' = seen
            /\ emitCount' = emitCount]_vars
    /\ [][~keepRunning /\ mpc # "fetch" => mpc' # "fetch"]_vars
    /\ [][~keepRunning /\ mpc = "fetch" /\ mpc' # "fetch" /\ lastFetch' = "ok" =>
            /\ mpc' = "sleep"
            /\ \E page \in Pages : <<seen', since', emitCount'>> = Processed(page)]_vars

\* The signal came during the fetch of the first iteration; the fetch
\* resolved, its entries were emitted and moved the watermark, and the loop
\* ended after the sleep.
C21_Witness ==
    /\ stoppedAt = "first fetch"
    /\ lastFetch = "ok"
    /\ mpc = "done"
    /\ seen # {}
    /\ since > since0

\* C27: once the stop signal has been received the loop ends: when the
\* pending fetch settles and the sleep ends, monitor returns, and from the
\* signal on the loop goes only forward through the iteration in progress
\* (fetch, then sleep, then the return).
C27_StopTerminates ==
    /\ (~keepRunning ~> mpc = "done")
    /\ [][~keepRunning /\ mpc' # mpc =>
            \/ mpc = "fetch" /\ mpc' = "sleep"
            \/ mpc = "sleep" /\ mpc' = "done"]_vars

\* monitor returned after a signal that came during a sleep.
C27_Witness ==
    /\ stoppedAt = "sleep"
    /\ mpc = "done"
    /\ ~keepRunning

----------------------------------------------------------------------------
(* Claims about the credentials after a logged-out closure (SpecLogin) *)

\* C25: when a connection that loginWeb opened closed with the logged-out
\* reason, the first one or the one of the retry after a restart request,
\* no credentials are left on disk by the time loginWeb has reported the
\* failure.
C25_LoggedOutClearsCreds ==
    \A s \in Socks :
        /\ lpc = "done"
        /\ socks[s].promise = "rejected"
        /\ socks[s].reason = LoggedOut
        => authDir # "creds"

\* A pairing has completed: a connection of the login reached open, or the
\* provider asked for the restart that follows a pairing.
Paired ==
    \/ \E s \in Socks : socks[s].promise = "resolved"
    \/ "restarting" \in told

\* C26: starting without credentials, relay with preference auto selects the
\* session transport only when a pairing has completed; after a login whose
\* connection closed before ever opening, auto selects the poll transport.
C26_AutoWebOnlyAfterPairing ==
    providerPref = "auto" /\ provider = "web" => Paired

----------------------------------------------------------------------------
(* Claims about close of the listener (SpecClose) *)

----------------------------------------------------------------------------
(* Claims about the body of a message (SpecBody) *)

\* The captions of the message that are not blank.
Captions(m) ==
    {Trim(c) : c \in {d \in {m.image.caption, m.video.caption} : NonBlank(d)}}

\* C30: the body is the conversation text when it is not blank, else the
\* extended text when it is not blank, else an image or video caption that
\* is not blank, else the placeholder of the first media kind present in the
\* order image, video, audio, document, sticker; with none of these there is
\* no body and the message is not dispatched.
C30_BodyByPriority ==
    body # "unset" =>
        IF NonBlank(wmsg.conversation) THEN body = Trim(wmsg.conversation)
        ELSE IF NonBlank(wmsg.extended) THEN body = Trim(wmsg.extended)
        ELSE IF Captions(wmsg) # {} THEN body \in Captions(wmsg)
        ELSE IF wmsg.image.present THEN body = "<media:image>"
        ELSE IF wmsg.video.present THEN body = "<media:video>"
        ELSE IF wmsg.audio THEN body = "<media:audio>"
        ELSE IF wmsg.document THEN body = "<media:document>"
        ELSE IF wmsg.sticker THEN body = "<media:sticker>"
        ELSE body = Undef

----------------------------------------------------------------------------
(* Claims about one iteration of the poll loop (SpecIteration) *)

\* C28: in one iteration only entries of the fetched page whose direction is
\* inbound are printed, each at most once, and they are printed in
\* non-decreasing order of creation time, an entry without a creation time
\* counting as time 0.
C28_InboundInDateOrder ==
    mpc = "sleep" =>
        /\ \A i \in DOMAIN emitted :
             /\ store[emitted[i]].direction = "inbound"
             /\ \E j \in DOMAIN fetched : fetched[j] = emitted[i]
        /\ \A i, j \in DOMAIN emitted :
             i < j => /\ DateKey(emitted[i]) <= DateKey(emitted[j])
                      /\ emitted[i] # emitted[j]

\* The page came with the later entry first and an outbound entry; the two
\* inbound entries were printed in the order of their creation times.
C28_Witness ==
    /\ mpc = "sleep"
    /\ Len(emitted) = 2
    /\ Len(fetched) = 2
    /\ emitted[1] = fetched[2]
    /\ emitted[2] = fetched[1]
    /\ DateKey(emitted[1]) < DateKey(emitted[2])

----------------------------------------------------------------------------
(* Claims about what the inbound loop discards and survives (SpecInbox) *)

\* The messages still held by the running invocations of the handler.
RECURSIVE Queued(_)
Queued(hs) == IF hs = <<>> THEN 0 ELSE Len(Head(hs).queue) + Queued(Tail(hs))

\* The number of calls of options.onMessage so far.
RECURSIVE Dispatches(_)
Dispatches(S) ==
    IF S = {} THEN 0
    ELSE LET i == CHOOSE j \in S : TRUE IN dispatched[i] + Dispatches(S \ {i})

\* The invocations whose current message passed every check and has not
\* reached options.onMessage yet.
BeforeDispatch ==
    {k \in DOMAIN handlers :
        \/ handlers[k].pc \in {"download", "save"}
        \/ handlers[k].pc = "read" /\ ~Dropped(Head(handlers[k].queue))}

\* Every accepted message has been handed to options.onMessage or is on its
\* way there.
AcceptedReachOnMessage ==
    accepted = Dispatches(Ids \cup {NoId}) + Cardinality(BeforeDispatch)

\* C23: a message sent by oneself (fromMe), a message on a status or
\* broadcast channel, and every message of an upsert whose type is not
\* notify never reach options.onMessage: no invocation of the handler is
\* past its checks with such a message, and onMessage has been called at
\* most as often as messages of the other kind arrived in notify upserts.
C23_DiscardedNeverDispatched ==
    /\ \A k \in DOMAIN handlers :
         handlers[k].pc \in {"read", "download", "save", "onMessage"} =>
             /\ ~Head(handlers[k].queue).fromMe
             /\ Head(handlers[k].queue).jid \notin {"status", "broadcast"}
    /\ Dispatches(Ids \cup {NoId}) <= eligible
    /\ accepted <= eligible

\* Two messages arrived, one of them in a notify upsert and with a new id,
\* none of them eligible, and both iterations ended without a call of
\* onMessage.
C23_Witness ==
    /\ arrived = 2
    /\ settled = 2
    /\ eligible = 0
    /\ wseen # {}
    /\ Dispatches(Ids \cup {NoId}) = 0

\* C15: a rejection of options.onMessage for one message (the reply resolver
\* threw, a send threw, any other reason) is caught and logged and never
\* stops the loop: every message that arrived has had its iteration of the
\* loop or is still held by a running invocation, an invocation that logged
\* a failure is still in the loop, and every accepted message of the same
\* and of later batches reaches options.onMessage.
C15_FailureNeverStopsLoop ==
    /\ arrived = settled + Queued(handlers)
    /\ \A k \in DOMAIN handlers :
         handlers[k].failed => handlers[k].queue # <<>> /\ handlers[k].pc # "done"
    /\ AcceptedReachOnMessage
    /\ ipc = "listening"

\* The second message of a batch is dispatched after the first one's
\* onMessage was rejected.
C15_Witness ==
    \E k \in DOMAIN handlers :
        /\ handlers[k].failed
        /\ handlers[k].pc = "onMessage"
        /\ Dispatches(Ids \cup {NoId}) = 2

\* C16: for every accepted message, a rejected sock.readMessages or a failed
\* download or save of the inbound media never prevents the dispatch:
\* options.onMessage is still called for the message, and with no media path
\* when the download failed.
C16_SideEffectsNeverBlockDispatch ==
    /\ AcceptedReachOnMessage
    /\ \A k \in DOMAIN handlers :
         /\ handlers[k].readFailed => handlers[k].pc \in {"download", "save", "onMessage"}
         /\ handlers[k].dlFailed => handlers[k].pc = "onMessage" /\ ~handlers[k].mediaPath

\* A media message is dispatched although both its acknowledgement and its
\* download failed.
C16_Witness ==
    \E k \in DOMAIN handlers :
        /\ handlers[k].pc = "onMessage"
        /\ Head(handlers[k].queue).content = "media"
        /\ handlers[k].readFailed
        /\ handlers[k].dlFailed
        /\ ~handlers[k].mediaPath
        /\ dispatched[Head(handlers[k].queue).id] = 1

----------------------------------------------------------------------------
(* Claims about loadWebMedia (SpecMedia) *)

\* C17: whatever the reference is (http or https URL, file:// reference,
\* plain local path) and whatever the payload's size, loadWebMedia either
\* throws or returns the payload, and a returned buffer is never longer than
\* MAX_WEB_BYTES (16 MiB).
C17_NeverOverCap ==
    mediaResult.called =>
        \/ ~mediaResult.ok
        \/ /\ mediaResult.length <= 16 * 1024 * 1024
           /\ mediaResult.length = mediaIo.size
           /\ mediaIo.outcome = "ok"

\* A file:// reference to a payload of exactly the cap was returned.
C17_Witness ==
    /\ mediaResult.called
    /\ mediaUrl = <<"file://", "path">>
    /\ mediaResult.ok
    /\ mediaResult.length = MAX_WEB_BYTES

\* C18: a payload of exactly MAX_WEB_BYTES bytes is returned; a payload of
\* MAX_WEB_BYTES + 1 bytes is refused, and the error states the limit and the
\* size observed (in MB, to one decimal).
C18_CapBoundary ==
    mediaResult.called /\ mediaIo.outcome = "ok" =>
        /\ mediaIo.size = MAX_WEB_BYTES =>
              mediaResult.ok /\ mediaResult.length = MAX_WEB_BYTES
        /\ mediaIo.size = MAX_WEB_BYTES + 1 =>
              /\ ~mediaResult.ok
              /\ mediaResult.error = "Media exceeds limit"
              /\ mediaResult.gotTenths = ToFixed1(mediaIo.size)

\* A remote payload of cap + 1 bytes was refused.
C18_Witness ==
    /\ mediaResult.called
    /\ mediaUrl = <<"https://", "path">>
    /\ mediaIo = [outcome |-> "ok", size |-> MAX_WEB_BYTES + 1]
    /\ ~mediaResult.ok

----------------------------------------------------------------------------
(* Claims about the webhook (SpecWebhook) *)

\* C19: the handler of a POST sends one response and no more, the body
\* '<Response></Response>' with status 200, when no reply is configured, when
\* the auto-reply was sent and when sending it failed; once the auto-reply
\* has been tried the response is out, and the handler never ends otherwise.
C19_AlwaysAcknowledged ==
    \A r \in Reqs :
        /\ reqs[r].responses <= 1
        /\ reqs[r].pc \in {"none", "resolving", "creating", "responded"}
        /\ reqs[r].pc = "responded" =>
              /\ reqs[r].responses = 1
              /\ reqs[r].status = 200
              /\ reqs[r].body = "<Response></Response>"
        /\ reqs[r].reply # "none" => reqs[r].pc = "responded"

\* One POST was answered after its auto-reply failed, one after its
\* auto-reply was sent, one without a reply.
C19_Witness ==
    \E a, b, c \in Reqs :
        /\ reqs[a].pc = "responded" /\ reqs[a].reply = "failed"
        /\ reqs[b].pc = "responded" /\ reqs[b].reply = "sent"
        /\ reqs[c].pc = "responded" /\ reqs[c].reply = "none"

----------------------------------------------------------------------------
(* Claims about the set of seen ids (SpecInbound) *)

\* C31: the set of seen ids of the poll loop and the one of the web listener
\* only grow, whatever step is taken (a fetch that failed, an onMessage that
\* rejected, SIGINT, an upsert); a sid in the poll loop's set is never
\* printed again, and an id whose onMessage rejected stays in the set and is
\* never handed to onMessage again.
C31_SeenOnlyGrows ==
    /\ [][seen \subseteq seen' /\ wseen \subseteq wseen']_vars
    /\ [][\A sid \in seen : emitCount'[sid] = emitCount[sid]]_vars
    /\ [][\A id \in failedIds \ {NoId} :
            id \in wseen' /\ dispatched'[id] = dispatched[id]]_vars

\* onMessage rejected for a message, the message arrived again and was
\* skipped.
C31_Witness ==
    \E id \in (failedIds \cap redelivered) \ {NoId} :
        /\ id \in wseen
        /\ dispatched[id] = 1
        /\ handlers = <<>>

----------------------------------------------------------------------------
(* Claims about interleaved invocations of the upsert handler (SpecInbox) *)

\* C32: when invocations of the messages.upsert handler interleave and carry
\* the same id, one of them takes the id and the other skips it: no two
\* running invocations are past the dedup with the same id, onMessage is
\* called at most once per id, and the message that was taken and passed
\* the checks is handed to onMessage or on its way there.
C32_TestAndInsertAtomic ==
    /\ \A k1, k2 \in DOMAIN handlers :
         k1 # k2 /\ Head(handlers[k1].queue).id # NoId =>
             Head(handlers[k1].queue).id # Head(handlers[k2].queue).id
    /\ \A k \in DOMAIN handlers :
         Head(handlers[k].queue).id # NoId => Head(handlers[k].queue).id \in wseen
    /\ \A id \in Ids : dispatched[id] <= 1
    /\ redelivered \subseteq wseen
    /\ AcceptedReachOnMessage

\* An invocation is suspended at an await with the one message of its batch;
\* a second upsert delivered the same id meanwhile, and its invocation has
\* skipped it and returned.
C32_Witness ==
    /\ arrived = 2
    /\ Len(handlers) = 1
    /\ Len(handlers[1].queue) = 1
    /\ handlers[1].pc \in {"read", "download", "save"}
    /\ handlers[1].queue[1].id \in redelivered
    /\ accepted = 1
    /\ settled = 1

\* C33: accepted messages reach onMessage in the order they arrived, also
\* across upserts: while an accepted message of an earlier upsert has not
\* been handed to onMessage yet, no message of a later upsert is.
\* (handlers holds the running invocations in the order of their upserts.)
C33_DispatchInArrivalOrder ==
    \A k1, k2 \in DOMAIN handlers :
        k1 < k2 /\ handlers[k2].pc = "onMessage" => k1 \notin BeforeDispatch

----------------------------------------------------------------------------
(* Claims about the acknowledgement of inbound messages (SpecInbox) *)

\* C34: sock.readMessages is called only for a message that goes on to
\* onMessage: an invocation waiting for readMessages never holds a message
\* the loop drops (no sender number, or neither text nor media).
C34_ReadOnlyWhenAccepted ==
    \A k \in DOMAIN handlers :
        handlers[k].pc = "read" => ~Dropped(Head(handlers[k].queue))

----------------------------------------------------------------------------
(* Claims about what the poll loop delivers (SpecPoll) *)

\* C35: no inbound entry is lost: an inbound entry created after the initial
\* watermark that has not been printed yet is not behind the watermark,
\* where no later fetch (dateSentAfter: since) returns it, also when more
\* entries than one page holds are waiting.
C35_NoInboundLost ==
    \A sid \in Sids :
        /\ store[sid].direction = "inbound"
        /\ store[sid].dateCreated > since0
        /\ emitCount[sid] = 0
        => store[sid].dateCreated >= since

----------------------------------------------------------------------------
(* Claims about what onMessage of monitorWebProvider sends and reports     *)
(* (SpecReply)                                                             *)

\* C36: for one inbound message at most one outbound message goes out: one
\* media message, which carries the text as its caption, or one text reply,
\* never both; msg.reply is called after msg.sendMedia only when the media
\* could not be sent.
C36_AtMostOneOutbound ==
    \A c \in Calls :
        /\ Len(calls[c].delivered) <= 1
        /\ Sends(c, "sendMedia") <= 1
        /\ Sends(c, "reply") <= 1
        /\ Len(calls[c].sends) = 2 =>
              calls[c].sends = <<"sendMedia", "reply">> /\ calls[c].mediaFailed

\* The resolver returned text and media to both calls: one sent the media
\* with the caption and nothing else; the other could not send the media and
\* sent the text alone.
C36_Witness ==
    \E a, b \in Calls :
        /\ calls[a].rr.text /\ calls[a].rr.media
        /\ calls[a].pc = "resolved"
        /\ calls[a].sends = <<"sendMedia">> /\ calls[a].delivered = <<"sendMedia">>
        /\ calls[b].rr.text /\ calls[b].rr.media
        /\ calls[b].pc = "resolved"
        /\ calls[b].sends = <<"sendMedia", "reply">>
        /\ calls[b].delivered = <<"reply">>

\* C37: the auto-reply is reported as sent (the 'Auto-replied' line and the
\* 'auto-reply sent' record) only when an outbound message went out for the
\* inbound message.
C37_ReportOnlyWhenSent ==
    \A c \in Calls :
        "auto-replied" \in calls[c].logs => calls[c].delivered # <<>>

----------------------------------------------------------------------------
(* Claims about the sockets of loginWeb and sendMessageWeb (SpecOneShot) *)

\* The sockets loginWeb has created.
Made == {s \in Socks : socks[s].made}

\* C38: every socket one of the two operations created has its close called
\* on every path.  Once sendMessageWeb has settled, with its return or with
\* the rejection of the connection, of the media or of the send,
\* sock.ws.close() has been called once.  Once loginWeb has settled, linked,
\* with the retry failed or logged out, each socket it created (the first
\* one and the retry) is closed or has its close timer pending, and a timer
\* goes only by firing, which closes its socket.
C38_EverySocketClosed ==
    /\ [](webSend.pc = "done" /\ webSend.failedAt # "create" =>
             ws = "closed" /\ webSend.closeCalls = 1)
    /\ [](webSend.pc = "done" /\ webSend.failedAt = "create" => ws = "absent")
    /\ [](lpc = "done" => \A s \in Made : socks[s].wsClosed \/ s \in timers)
    /\ [][\A s \in timers \ timers' : socks'[s].wsClosed]_vars

\* loginWeb was asked to restart, the retry's connection closed before
\* opening and loginWeb rejected; both sockets are closed and no timer is
\* left.
C38_Witness ==
    /\ lpc = "done"
    /\ Made = Socks
    /\ socks["retry"].promise = "rejected"
    /\ "linked-after-restart" \notin told
    /\ timers = {}
    /\ \A s \in Socks : socks[s].wsClosed

\* sendMessageWeb rejected because loading the media failed, after it had
\* connected; its socket is closed.
C38_WitnessSend ==
    /\ webSend.pc = "done"
    /\ webSend.failedAt = "load"
    /\ ws = "closed"

----------------------------------------------------------------------------
(* Claims about a connection the relay loses (SpecRelay) *)

\* C39: when the connection of the relay's listener closes after it had
\* opened, the relay gets to know: it is not left waiting on the closed
\* connection, it goes on to the poll transport (preference auto) or ends.
C39_ClosureSurfaced ==
    webConn = "closed" => rpc \in {"twilio_running", "exited"}

----------------------------------------------------------------------------
(* Claims about promptTelegramAllowFrom (SpecTelegram) *)

\* The strings of a list.
Entries(list) == {list[i] : i \in DOMAIN list}

\* C40: the allowFrom promptTelegramAllowFrom writes has no entry twice,
\* holds the id entered and every entry the account had that is not blank
\* (each as its trimmed string), dmPolicy is set to allowlist, and a second
\* run with the same id writes the same list.
C40_AllowFromMerged ==
    tg.runs >= 1 =>
        /\ \A i, j \in DOMAIN tg.allowFrom :
              tg.allowFrom[i] = tg.allowFrom[j] => i = j
        /\ Trim(tg.entered) \in Entries(tg.allowFrom)
        /\ \A i \in DOMAIN tg.existing :
              Trim(tg.existing[i].v) # "" =>
                  Trim(tg.existing[i].v) \in Entries(tg.allowFrom)
        /\ tg.dmPolicy = "allowlist"
        /\ tg.allowFrom = tg.first

\* The account had the id as a number, the id with a blank after it and
\* another id; the id was entered again, twice: the list holds the two ids
\* once each after both runs.
C40_Witness ==
    /\ tg.runs = 2
    /\ tg.existing = <<[num |-> TRUE, v |-> "7"], [num |-> FALSE, v |-> "7 "],
                       [num |-> FALSE, v |-> "8"]>>
    /\ tg.entered = "7 "
    /\ tg.allowFrom = <<"7", "8">>

====
